---- MODULE Spec2Model ----
(***************************************************************************)
(* A model of the XFA mapping engine of PDF-Server: schema building,       *)
(* value extraction, type lookup and the dataset side of the fill          *)
(* (app/services/pdf_extract_service.py, pdf_field_type_service.py,        *)
(* pdf_filler_service.py, app/utils/utils.py).                             *)
(*                                                                         *)
(* An XML tree is a preorder sequence of nodes, each with its depth; the   *)
(* first node is the base node (depth 0).  A JSON value is a record        *)
(* [k, v]: k = "str" with v a string, k = "dict" with v a function from    *)
(* keys to JSON values, k = "list" with v a sequence of JSON values.       *)
(* A (tag, idx) path is a sequence of pairs <<tag, idx>>, idx = -1 for a   *)
(* single node, as in the source.  A string the code formats or parses is  *)
(* a sequence of tokens: a tag, a separator, or an index marker.           *)
(***************************************************************************)
EXTENDS Integers, Sequences, FiniteSets, TLC

(* ------------------------------ bounds -------------------------------- *)
\* dataset nodes below the base node, and their depth
MaxDsNodes == 2
MaxDsDepth == 2
\* form nodes below the base subform, and their depth
MaxFormNodes == 3
MaxFormDepth == 2
\* the same, for the documents of the index rule
MaxIdxNodes == 3
MaxIdxDepth == 2
\* dataset nodes below the base node and their depth, for the path rules
MaxPathNodes == 3
MaxPathDepth == 2

(* --------------------------- JSON values ------------------------------ *)
JStr(s) == [k |-> "str", v |-> s]
JDict(m) == [k |-> "dict", v |-> m]
JList(a) == [k |-> "list", v |-> a]
EmptyDict == <<>>

IsDict(x) == x.k = "dict"
IsList(x) == x.k = "list"

\* x == y on two JSON values
RECURSIVE JEq(_, _)
JEq(x, y) ==
    /\ x.k = y.k
    /\ IF IsDict(x)
       THEN DOMAIN x.v = DOMAIN y.v /\ \A t \in DOMAIN x.v : JEq(x.v[t], y.v[t])
       ELSE IF IsList(x)
            THEN Len(x.v) = Len(y.v) /\ \A i \in 1..Len(x.v) : JEq(x.v[i], y.v[i])
            ELSE x.v = y.v

\* cur[tag] = x on a Python dict
Put(cur, tag, x) == [t \in (DOMAIN cur) \cup {tag} |-> IF t = tag THEN x ELSE cur[t]]

\* while len(arr) <= idx: arr.append(fill)
Extend(arr, idx, fill) ==
    [i \in 1..(IF Len(arr) > idx THEN Len(arr) ELSE idx + 1) |->
        IF i <= Len(arr) THEN arr[i] ELSE fill]

(* ---------------------- _set_in_nested (schema) ----------------------- *)
\* The cursor of the source is always a dict (every assignment to cur is
\* guarded by an isinstance check), so the function is stated on the dict
\* under the cursor and returns that dict after the call.
RECURSIVE SetInNested(_, _)
SetInNested(cur, path) ==
    IF path = <<>> THEN cur
    ELSE
    LET tag == path[1][1]
        idx == path[1][2]
        isLeaf == Len(path) = 1
        rest == Tail(path)
        has == tag \in DOMAIN cur
    IN  IF idx >= 0
        THEN LET arr0 == IF has THEN cur[tag] ELSE JList(<<>>)
                 arr1 == IF IsList(arr0) THEN arr0.v
                         ELSE IF arr0.k = "str" /\ arr0.v = "" THEN <<>> ELSE <<arr0>>
                 arr2 == Extend(arr1, idx, IF isLeaf THEN JStr("") ELSE JDict(EmptyDict))
                 el == arr2[idx + 1]
             IN  IF isLeaf
                 THEN Put(cur, tag, JList(IF IsDict(el)
                                          THEN [arr2 EXCEPT ![idx + 1] = JStr("")]
                                          ELSE arr2))
                 ELSE Put(cur, tag,
                          JList([arr2 EXCEPT ![idx + 1] =
                                   JDict(SetInNested(IF IsDict(el) THEN el.v ELSE EmptyDict,
                                                     rest))]))
        ELSE IF isLeaf
             THEN IF has /\ IsDict(cur[tag]) THEN cur ELSE Put(cur, tag, JStr(""))
             ELSE IF has /\ IsDict(cur[tag])
                  THEN Put(cur, tag, JDict(SetInNested(cur[tag].v, rest)))
                  ELSE IF has /\ IsList(cur[tag])
                       THEN IF Len(cur[tag].v) > 0 /\ IsDict(cur[tag].v[1])
                            THEN Put(cur, tag,
                                     JList([cur[tag].v EXCEPT ![1] =
                                              JDict(SetInNested(cur[tag].v[1].v, rest))]))
                            ELSE cur
                       ELSE Put(cur, tag, JDict(SetInNested(EmptyDict, rest)))

(* ------------------ leaf key-paths of a JSON tree --------------------- *)
\* The (tag, idx) paths of the leaves below a dict: a leaf is anything that
\* is neither a dict nor a list.
RECURSIVE LeafKeys(_, _)
LeafKeys(m, prefix) ==
    UNION { LET x == m[t]
            IN  IF IsDict(x) THEN LeafKeys(x.v, Append(prefix, <<t, -1>>))
                ELSE IF IsList(x)
                     THEN UNION { IF IsDict(x.v[i])
                                  THEN LeafKeys(x.v[i].v, Append(prefix, <<t, i - 1>>))
                                  ELSE {Append(prefix, <<t, i - 1>>)}
                                  : i \in 1..Len(x.v) }
                     ELSE {Append(prefix, <<t, -1>>)}
          : t \in DOMAIN m }

(* ------------------------ formatted strings --------------------------- *)
\* Tokens of the keys and paths the code formats and parses.  Element names
\* hold none of the characters ".", "/", "[" and "]".
TTag(n) == [k |-> "tag", v |-> n, i |-> 0]
TDot == [k |-> "dot", v |-> "", i |-> 0]
TSlash == [k |-> "slash", v |-> "", i |-> 0]
\* "[i]"
TIdx(i) == [k |-> "idx", v |-> "", i |-> i]

RECURSIVE JoinParts(_, _)
JoinParts(parts, sep) ==
    IF parts = <<>> THEN <<>>
    ELSE IF Len(parts) = 1 THEN parts[1]
    ELSE parts[1] \o <<sep>> \o JoinParts(Tail(parts), sep)

\* f"{tag}[{idx}]" if idx >= 0 else tag
KeyPart(seg) == IF seg[2] >= 0 THEN <<TTag(seg[1]), TIdx(seg[2])>> ELSE <<TTag(seg[1])>>

\* f"{base_tag}." + ".".join(parts)
FormatKey(base, path) ==
    <<TTag(base), TDot>> \o JoinParts([i \in 1..Len(path) |-> KeyPart(path[i])], TDot)

\* full_json_path.split(".")
RECURSIVE SplitDots(_, _)
SplitDots(toks, part) ==
    IF toks = <<>> THEN <<part>>
    ELSE IF Head(toks) = TDot THEN <<part>> \o SplitDots(Tail(toks), <<>>)
    ELSE SplitDots(Tail(toks), Append(part, Head(toks)))

\* re.match(r"^(.+)\[(\d+)\]$", part), else (part, -1)
PartToPair(part) ==
    IF Len(part) = 2 /\ part[1].k = "tag" /\ part[2].k = "idx"
    THEN <<part[1].v, part[2].i>>
    ELSE IF Len(part) = 1 /\ part[1].k = "tag" THEN <<part[1].v, -1>>
    ELSE <<"", -1>>
ParseKey(toks) ==
    LET parts == SplitDots(toks, <<>>)
    IN  [i \in 1..Len(parts) |-> PartToPair(parts[i])]

\* _json_path_to_xfa_path without a field map: the base tag and its dot are
\* cut off, [i] becomes [i+1], every dot a slash, and "./" goes in front.
\* JsonPathToXfaPathSameIdx is the conversion that would keep [i] as it is.
StartsWith(toks, pre) == Len(toks) >= Len(pre) /\ SubSeq(toks, 1, Len(pre)) = pre
JsonPathToXfaPathSameIdx(key, base) ==
    LET rel == IF StartsWith(key, <<TTag(base), TDot>>) THEN SubSeq(key, 3, Len(key)) ELSE key
    IN  IF rel = <<>> \/ key = <<TTag(base)>> THEN <<TDot, TSlash>>
        ELSE <<TDot, TSlash>> \o
             [n \in 1..Len(rel) |-> IF rel[n].k = "dot" THEN TSlash ELSE rel[n]]
JsonPathToXfaPath(key, base) ==
    LET rel == IF StartsWith(key, <<TTag(base), TDot>>) THEN SubSeq(key, 3, Len(key)) ELSE key
    IN  IF ~StartsWith(key, <<TTag(base), TDot>>) /\ key = <<TTag(base)>>
        THEN <<TDot, TSlash>>
        ELSE IF rel = <<>> THEN <<TDot, TSlash>>
        ELSE <<TDot, TSlash>> \o
             [n \in 1..Len(rel) |->
                IF rel[n].k = "idx" THEN TIdx(rel[n].i + 1)
                ELSE IF rel[n].k = "dot" THEN TSlash
                ELSE rel[n]]

(* ------------------------- the dataset tree --------------------------- *)
\* Node: [d: depth, tag, text, dg: carries xfa:dataNode="dataGroup"].
BaseTag == "FORM1"
ButtonNames == {"SaveButton", "ResetButton", "PrintButton"}

Parent(t, i) ==
    IF i = 1 THEN 0
    ELSE CHOOSE j \in 1..(i - 1) :
            /\ t[j].d = t[i].d - 1
            /\ \A h \in (j + 1)..(i - 1) : t[h].d >= t[i].d

Kids(t, i) == {j \in 1..Len(t) : j > i /\ Parent(t, j) = i}

\* same = [c for c in parent if strip_ns(c.tag) == tag]
SameTag(t, i) == {j \in 2..Len(t) : Parent(t, j) = Parent(t, i) /\ t[j].tag = t[i].tag}

\* same.index(cur) when len(same) > 1, else -1
SiblingIdx(t, i) ==
    IF Cardinality(SameTag(t, i)) > 1
    THEN Cardinality({j \in SameTag(t, i) : j < i})
    ELSE -1

RECURSIVE PathWithIndex(_, _)
PathWithIndex(t, i) ==
    IF i = 1 THEN <<>>
    ELSE Append(PathWithIndex(t, Parent(t, i)), <<t[i].tag, SiblingIdx(t, i)>>)

IsLeafEl(t, i) == t[i].text # "" \/ Kids(t, i) = {}

RECURSIVE HasDataGroupAncestor(_, _)
HasDataGroupAncestor(t, i) ==
    IF i = 0 THEN FALSE
    ELSE t[i].dg \/ HasDataGroupAncestor(t, Parent(t, i))

\* the elements _collect_leaf_fields keeps, in document order
LeafFieldIds(t) ==
    {i \in 1..Len(t) : /\ ~HasDataGroupAncestor(t, i)
                       /\ IsLeafEl(t, i)
                       /\ t[i].tag \notin ButtonNames}

\* the ids of a set of nodes in document order
RECURSIVE InOrder(_)
InOrder(S) ==
    IF S = {} THEN <<>>
    ELSE LET m == CHOOSE x \in S : \A y \in S : x <= y
         IN  <<m>> \o InOrder(S \ {m})

\* _xpath_from_to: "." for the base, else "./" and the segments joined by
\* "/", a segment being tag[n] (1-based) for a tag its parent holds twice
XpathIdx(t, i) ==
    LET same == {j \in 2..Len(t) : Parent(t, j) = Parent(t, i) /\ t[j].tag = t[i].tag}
    IN  IF Cardinality(same) > 1 THEN Cardinality({j \in same : j <= i}) ELSE 0
RECURSIVE XpathParts(_, _)
XpathParts(t, i) ==
    IF i = 1 THEN <<>>
    ELSE Append(XpathParts(t, Parent(t, i)),
                IF XpathIdx(t, i) > 0 THEN <<TTag(t[i].tag), TIdx(XpathIdx(t, i))>>
                ELSE <<TTag(t[i].tag)>>)
XpathFromTo(t, i) ==
    IF XpathParts(t, i) = <<>> THEN <<TDot>>
    ELSE <<TDot, TSlash>> \o JoinParts(XpathParts(t, i), TSlash)

\* _collect_leaf_fields: the kept elements with their two paths
CollectLeafFields(t) ==
    LET ids == InOrder(LeafFieldIds(t))
    IN  [n \in 1..Len(ids) |->
            [id |-> ids[n], rel_xpath |-> XpathFromTo(t, ids[n]),
             json_path |-> PathWithIndex(t, ids[n]), text |-> t[ids[n]].text]]

\* _build_json_template: _set_in_nested over the fields, in order
RECURSIVE FoldSetInNested(_, _, _)
FoldSetInNested(tpl, fields, n) ==
    IF n > Len(fields) THEN tpl
    ELSE FoldSetInNested(SetInNested(tpl, fields[n].json_path), fields, n + 1)

BuildJsonTemplate(t) == FoldSetInNested(EmptyDict, CollectLeafFields(t), 1)

(* -------------------- _set_value_in_nested (values) ------------------- *)
\* Returns [ok, obj]: the return value and the dict under the cursor after
\* the call (the writes made before a False return stay in place).
RECURSIVE SetValueInNested(_, _, _, _)
SetValueInNested(cur, path, value, preserve) ==
    IF path = <<>> THEN [ok |-> TRUE, obj |-> cur]
    ELSE
    LET tag == path[1][1]
        idx == path[1][2]
        isLeaf == Len(path) = 1
        rest == Tail(path)
        has == tag \in DOMAIN cur
    IN  IF preserve /\ ~has THEN [ok |-> FALSE, obj |-> cur]
        ELSE IF idx >= 0
        THEN LET a0 == IF has THEN cur[tag] ELSE JList(<<>>)
             IN  IF ~IsList(a0) /\ preserve THEN [ok |-> FALSE, obj |-> cur]
                 ELSE
                 LET arr1 == IF IsList(a0) THEN a0.v ELSE <<>>
                     \* lines 667-686: the array is extended whatever the flag
                     arr2 == Extend(arr1, idx, IF isLeaf THEN JStr("") ELSE JDict(EmptyDict))
                     el == arr2[idx + 1]
                 IN  IF isLeaf
                     THEN [ok |-> TRUE,
                           obj |-> Put(cur, tag, JList([arr2 EXCEPT ![idx + 1] = JStr(value)]))]
                     ELSE IF ~IsDict(el) /\ preserve
                          THEN [ok |-> FALSE, obj |-> Put(cur, tag, JList(arr2))]
                          ELSE LET r == SetValueInNested(IF IsDict(el) THEN el.v ELSE EmptyDict,
                                                         rest, value, preserve)
                               IN  [ok |-> r.ok,
                                    obj |-> Put(cur, tag,
                                                JList([arr2 EXCEPT ![idx + 1] = JDict(r.obj)]))]
        ELSE IF isLeaf
             THEN [ok |-> TRUE, obj |-> Put(cur, tag, JStr(value))]
             ELSE LET x0 == IF has THEN cur[tag] ELSE JDict(EmptyDict)
                  IN  IF ~IsDict(x0) /\ preserve THEN [ok |-> FALSE, obj |-> cur]
                      ELSE LET r == SetValueInNested(IF IsDict(x0) THEN x0.v ELSE EmptyDict,
                                                     rest, value, preserve)
                           IN  [ok |-> r.ok, obj |-> Put(cur, tag, JDict(r.obj))]

(* --------------------------- the form tree ---------------------------- *)
\* Node: [d, kind, name, val, dg]; kind is the element's local name
\* ("subform", "exclGroup", "field", or "other"), name its name attribute
\* ("" when absent), val the stripped text of its value/text ("" when the
\* element is missing, nil or empty).  The first node is the first named
\* subform of the stream (base_sub); an empty sequence is a document whose
\* form stream is missing or has no named subform.
IsButton(name) == name \in ButtonNames

RECURSIVE WalkNode(_, _, _), WalkKids(_, _, _)
\* walk(): the fields met below a node, in document order, each with the
\* path segments that lead to it
WalkNode(f, j, segs) ==
    IF HasDataGroupAncestor(f, j) THEN <<>>
    ELSE IF f[j].kind = "subform"
         THEN WalkKids(f, InOrder(Kids(f, j)),
                       IF f[j].name # "" THEN Append(segs, f[j].name) ELSE segs)
    ELSE IF f[j].kind = "exclGroup"
         THEN IF f[j].name # ""
              THEN <<[path |-> Append(segs, f[j].name), id |-> j]>>
              ELSE <<>>
    ELSE IF f[j].kind = "field"
         THEN IF f[j].name = "" \/ IsButton(f[j].name)
              THEN <<>>
              ELSE <<[path |-> Append(segs, f[j].name), id |-> j]>>
    ELSE WalkKids(f, InOrder(Kids(f, j)), segs)

WalkKids(f, kids, segs) ==
    IF kids = <<>> THEN <<>>
    ELSE WalkNode(f, Head(kids), segs) \o WalkKids(f, Tail(kids), segs)

\* _collect_form_field_paths_from_pdf
FormBaseTag(f) == IF f = <<>> THEN "" ELSE f[1].name
CollectFormFieldPaths(f) ==
    IF f = <<>> THEN <<>>
    ELSE WalkKids(f, InOrder(Kids(f, 1)), <<f[1].name>>)

(* ----------------------- _build_field_template ------------------------ *)
Min(a, b) == IF a < b THEN a ELSE b
Tags(path) == [i \in 1..Len(path) |-> path[i][1]]
Singles(tail) == [i \in 1..Len(tail) |-> <<tail[i], -1>>]
KeepPrefix == <<"Page1", "KeepPageSeparate">>
\* "최대 인덱스 2로 제한"
KeepIdxCap == 2

\* lines 328-337: the part of a form path after the dataset base tag, or
\* after its first segment when the dataset base tag is not in it
PathTail(segs, baseTag) ==
    IF \E i \in 1..Len(segs) : segs[i] = baseTag
    THEN LET i == CHOOSE i \in 1..Len(segs) :
                      segs[i] = baseTag /\ \A h \in 1..(i - 1) : segs[h] # baseTag
         IN  SubSeq(segs, i + 1, Len(segs))
    ELSE IF Len(segs) > 1 THEN Tail(segs) ELSE <<>>

RECURSIVE NonEmptyTails(_, _)
NonEmptyTails(paths, baseTag) ==
    IF paths = <<>> THEN <<>>
    ELSE LET tl == PathTail(Head(paths).path, baseTag)
         IN  (IF tl = <<>> THEN <<>> ELSE <<tl>>) \o NonEmptyTails(Tail(paths), baseTag)

PathTails(f, baseTag) == NonEmptyTails(CollectFormFieldPaths(f), baseTag)

\* path_count[p] and prefix_count.get(p, 0): prefixes of length >= 1 only
PathCount(tails, p) == Cardinality({k \in 1..Len(tails) : tails[k] = p})
PrefixCount(tails, p) ==
    IF p = <<>> THEN 0
    ELSE Cardinality({k \in 1..Len(tails) :
                        Len(tails[k]) >= Len(p) /\ SubSeq(tails[k], 1, Len(p)) = p})

\* seen_paths: how many times the same path came before position k
OccIdx(tails, k) == Cardinality({j \in 1..(k - 1) : tails[j] = tails[k]})

\* lines 451-481 and 1073-1096: where the index of a repeated path goes
Boundary(tails, p) ==
    {i \in 1..Len(p) : /\ PrefixCount(tails, SubSeq(p, 1, i - 1)) = 1
                       /\ PrefixCount(tails, SubSeq(p, 1, i)) > 1}
\* IndexPosFirst would put the index on the first segment, whatever the
\* boundary
IndexPosFirst(tails, p) == 1
IndexPos(tails, p) ==
    IF Boundary(tails, p) # {}
    THEN CHOOSE i \in Boundary(tails, p) : \A h \in Boundary(tails, p) : i <= h
    ELSE Len(p)
IndexedPath(tails, p, currentIdx) ==
    [i \in 1..Len(p) |-> <<p[i], IF i = IndexPos(tails, p) THEN currentIdx ELSE -1>>]

\* lines 303-312: the tag paths the dataset holds below each indexed
\* KeepPageSeparate, as the sequence of [idx, tail] in field order
KeepEntry(jp) ==
    LET hits == {i \in 1..Len(jp) : jp[i][1] = "KeepPageSeparate" /\ jp[i][2] >= 0}
    IN  IF hits = {} THEN <<>>
        ELSE LET i == CHOOSE i \in hits : \A h \in hits : i <= h
             IN  <<[idx |-> jp[i][2], tail |-> Tags(SubSeq(jp, i + 1, Len(jp)))]>>
RECURSIVE KeepEntries(_, _)
KeepEntries(fields, n) ==
    IF n > Len(fields) THEN <<>>
    ELSE KeepEntry(fields[n].json_path) \o KeepEntries(fields, n + 1)

\* lines 383-397: the first group, in insertion order, holding the tail or a
\* tail with the same first tag; -1 when there is none
GroupMatches(groups, g, kt) ==
    \E e \in 1..Len(groups) :
        /\ groups[e].idx = g
        /\ \/ groups[e].tail = kt
           \/ Len(kt) > 0 /\ Len(groups[e].tail) > 0 /\ kt[1] = groups[e].tail[1]
KeepMatch(groups, kt) ==
    LET ok == {e \in 1..Len(groups) : GroupMatches(groups, groups[e].idx, kt)}
    IN  IF ok = {} THEN -1
        ELSE groups[CHOOSE e \in ok : \A h \in ok : e <= h].idx

\* lines 410-424: the index for a tail the dataset does not hold
NewKeepIdx(tpl, kt) ==
    LET page == IF "Page1" \in DOMAIN tpl THEN tpl["Page1"] ELSE JDict(EmptyDict)
        existing == IF "KeepPageSeparate" \in DOMAIN page.v
                    THEN page.v["KeepPageSeparate"] ELSE JList(<<>>)
        fam == {i \in 1..Len(existing.v) :
                  IsDict(existing.v[i]) /\ "FamilyMember" \in DOMAIN existing.v[i].v}
    IN  IF ~IsList(existing) THEN 0
        ELSE IF Len(kt) > 0 /\ kt[1] = "FamilyMember" /\ fam # {}
             THEN (CHOOSE i \in fam : \A h \in fam : i <= h) - 1
             ELSE Min(Len(existing.v), KeepIdxCap)

\* One turn of the loop of lines 365-492.  acc = [tpl, pseen, out]: the
\* template below the base tag, prefix_seen, and for each tail handled so
\* far the branch taken and the (tag, idx) path written ("raise" when the
\* turn ended in the except clause).
TemplateStep(acc, tails, k, groups) ==
    LET tail == tails[k]
        isKeep == /\ Len(tail) >= 2
                  /\ SubSeq(tail, 1, 2) = KeepPrefix
                  /\ PrefixCount(tails, KeepPrefix) > 1
        kt == SubSeq(tail, 3, Len(tail))
        m == KeepMatch(groups, kt)
        cached == kt \in DOMAIN acc.pseen
        raises == /\ m = -1 /\ ~cached
                  /\ "Page1" \in DOMAIN acc.tpl /\ ~IsDict(acc.tpl["Page1"])
        fresh == NewKeepIdx(acc.tpl, kt)
        keepIdx == IF m >= 0 THEN m
                   ELSE Min(IF cached THEN acc.pseen[kt] ELSE fresh, KeepIdxCap)
        pseen2 == IF m = -1 /\ ~cached
                  THEN [x \in DOMAIN acc.pseen \cup {kt} |->
                            IF x = kt THEN fresh ELSE acc.pseen[x]]
                  ELSE acc.pseen
        keepPath == <<<<tail[1], -1>>, <<tail[2], keepIdx>>>> \o Singles(kt)
        jp == IF isKeep THEN keepPath
              ELSE IF PathCount(tails, tail) > 1
                   THEN IndexedPath(tails, tail, OccIdx(tails, k))
                   ELSE Singles(tail)
    IN  IF isKeep /\ raises
        THEN [tpl |-> acc.tpl, pseen |-> acc.pseen,
              out |-> Append(acc.out, [tail |-> tail, branch |-> "raise", jp |-> <<>>])]
        ELSE [tpl |-> IF isKeep
                      THEN SetInNested(SetInNested(acc.tpl, jp), jp)
                      ELSE SetInNested(acc.tpl, jp),
              pseen |-> IF isKeep THEN pseen2 ELSE acc.pseen,
              out |-> Append(acc.out,
                             [tail |-> tail,
                              branch |-> IF isKeep THEN "keep"
                                         ELSE IF PathCount(tails, tail) > 1
                                              THEN "repeat" ELSE "single",
                              jp |-> jp])]

RECURSIVE TemplateLoop(_, _, _, _)
TemplateLoop(acc, tails, k, groups) ==
    IF k > Len(tails) THEN acc
    ELSE TemplateLoop(TemplateStep(acc, tails, k, groups), tails, k + 1, groups)

\* _build_field_template: [tpl, pseen, out] for a dataset tree and a form tree
BuildFieldTemplate(t, f) ==
    LET fields == CollectLeafFields(t)
    IN  TemplateLoop([tpl |-> FoldSetInNested(EmptyDict, fields, 1),
                      pseen |-> <<>>, out |-> <<>>],
                     PathTails(f, t[1].tag), 1, KeepEntries(fields, 1))

(* ------------------- the template tree and types ---------------------- *)
\* Template node: [d, kind, name, ui, caption, pic, items]; the first node
\* is the root of the template stream.  ui is the local name of the first
\* child of the field's ui element ("" when there is none), caption the
\* stripped caption text ("" when there is none), pic the format/picture
\* text (NoPic when there is none), items the stripped non-empty texts of
\* the field's items/text elements in document order.
RangeOf(q) == {q[i] : i \in 1..Len(q)}

Desc(t, j) == {h \in (j + 1)..Len(t) : \A g \in (j + 1)..h : t[g].d > t[j].d}

\* _get_template_field_path: the names of the named nodes from below the
\* root down to the node
RECURSIVE NamePath(_, _)
NamePath(t, i) ==
    IF i <= 1 THEN <<>>
    ELSE NamePath(t, Parent(t, i)) \o (IF t[i].name # "" THEN <<t[i].name>> ELSE <<>>)

RECURSIVE Dedupe(_)
Dedupe(q) ==
    IF q = <<>> THEN <<>>
    ELSE LET r == Dedupe(SubSeq(q, 1, Len(q) - 1))
             x == q[Len(q)]
         IN  IF x \in RangeOf(r) THEN r ELSE Append(r, x)

\* collect_radio_options_from_group: caption or name of each field below
RECURSIVE Labels(_, _)
Labels(t, ids) ==
    IF ids = <<>> THEN <<>>
    ELSE LET n == t[Head(ids)]
             label == IF n.caption # "" THEN n.caption ELSE n.name
         IN  (IF label # "" THEN <<label>> ELSE <<>>) \o Labels(t, Tail(ids))
CollectRadioOptions(t, g) ==
    Dedupe(Labels(t, InOrder({h \in Desc(t, g) : t[h].kind = "field"})))

(* A picture text is [kind, inner]: the text "kind{inner}" when kind is one
   of date, time, num, text, and the bare text inner when kind is "".  inner
   is a sequence of characters without braces; it is not empty when there is
   a kind, and NoPic stands for a missing or empty picture. *)
NoPic == [kind |-> "", inner |-> <<>>]
MaskChars == {"A", "9", "X", "#"}

\* re.search(r'[set]{2,}', s)
HasRun(s, set) == \E i \in 1..(Len(s) - 1) : s[i] \in set /\ s[i + 1] \in set

\* re.sub(r'(?<!g)[set]{n}(?!g)', rep, s) from position i on: matches are
\* taken left to right and do not overlap, the look-around reads s itself
\* (g = "" when the pattern has no look-around)
RECURSIVE Sub(_, _, _, _, _, _)
Sub(s, i, set, n, g, rep) ==
    IF i > Len(s) THEN <<>>
    ELSE IF /\ i + n - 1 <= Len(s)
            /\ \A h \in i..(i + n - 1) : s[h] \in set
            /\ (i = 1 \/ s[i - 1] # g)
            /\ (i + n > Len(s) \/ s[i + n] # g)
         THEN rep \o Sub(s, i + n, set, n, g, rep)
         ELSE <<s[i]>> \o Sub(s, i + 1, set, n, g, rep)

\* re.sub(r'\s+', ' ', s)
RECURSIVE Squeeze(_)
Squeeze(s) ==
    IF Len(s) < 2 THEN s
    ELSE IF s[1] = " " /\ s[2] = " " THEN Squeeze(Tail(s))
    ELSE <<s[1]>> \o Squeeze(Tail(s))
RECURSIVE Strip(_)
Strip(s) ==
    IF s = <<>> THEN s
    ELSE IF Head(s) = " " THEN Strip(Tail(s))
    ELSE IF s[Len(s)] = " " THEN Strip(SubSeq(s, 1, Len(s) - 1))
    ELSE s

\* normalize_picture; <<>> stands for None
NormalizePicture(p) ==
    IF p.inner = <<>> \/ p.kind \in {"text", "num"} THEN <<>>
    ELSE LET s0 == Strip(p.inner)
             s1 == Sub(s0, 1, {"y", "Y"}, 4, "", <<"Y", "Y", "Y", "Y">>)
             s2 == Sub(s1, 1, {"y", "Y"}, 2, "Y", <<"Y", "Y">>)
             s3 == Sub(s2, 1, {"m", "M"}, 2, "", <<"M", "M">>)
             s4 == Sub(s3, 1, {"m", "M"}, 1, "M", <<"M">>)
             s5 == Sub(s4, 1, {"d", "D"}, 2, "", <<"D", "D">>)
             s6 == Sub(s5, 1, {"d", "D"}, 1, "D", <<"D">>)
             s7 == Sub(s6, 1, {"h", "H"}, 2, "", <<"H", "H">>)
             s8 == Sub(s7, 1, {"h", "H"}, 1, "H", <<"H">>)
             s9 == Sub(s8, 1, {"s", "S"}, 2, "", <<"s", "s">>)
             s10 == Sub(s9, 1, {"s"}, 1, "s", <<"s">>)
             s11 == Sub(s10, 1, {"a", "A"}, 2, "", <<"A", "A">>)
         IN  IF HasRun(s0, MaskChars) THEN <<>> ELSE Strip(Squeeze(s11))

\* re.search(r"(H|HH|m|mm|s|ss|AA)", fmt)
HasTimeToken(fmt) ==
    \/ \E i \in 1..Len(fmt) : fmt[i] \in {"H", "m", "s"}
    \/ \E i \in 1..(Len(fmt) - 1) : fmt[i] = "A" /\ fmt[i + 1] = "A"

\* parse_ui_and_format: the type named by the ui child
UiType(ui, pic) ==
    IF ui = "" \/ ui = "textEdit" THEN "text"
    ELSE IF ui = "choiceList" THEN "select"
    ELSE IF ui = "checkButton" THEN "checkbox"
    ELSE IF ui = "radioButton" THEN "radio"
    ELSE IF ui = "dateTimeEdit"
         THEN IF HasTimeToken(NormalizePicture(pic)) THEN "time" ELSE "date"
    ELSE ui
\* parse_ui_and_format: the format it returns (<<>> for None)
UiFormat(ui, pic) ==
    IF ui \in {"choiceList", "checkButton", "radioButton"} THEN <<>>
    ELSE NormalizePicture(pic)

\* build_field_type_info over one root: the entries of the exclGroup pass
\* and of the field pass, in document order
RECURSIVE GroupEntries(_, _)
GroupEntries(t, ids) ==
    IF ids = <<>> THEN <<>>
    ELSE LET g == Head(ids)
         IN  (IF t[g].name # "" /\ NamePath(t, g) # <<>>
              THEN <<[path |-> NamePath(t, g), type |-> "radio",
                      options |-> CollectRadioOptions(t, g), format |-> <<>>]>>
              ELSE <<>>) \o GroupEntries(t, Tail(ids))
RECURSIVE FieldEntries(_, _)
FieldEntries(t, ids) ==
    IF ids = <<>> THEN <<>>
    ELSE LET x == Head(ids)
             ftype == UiType(t[x].ui, t[x].pic)
         IN  (IF t[x].name # "" /\ NamePath(t, x) # <<>>
              THEN <<[path |-> NamePath(t, x), type |-> ftype,
                      options |-> IF ftype = "select" THEN Dedupe(t[x].items) ELSE <<>>,
                      format |-> IF ftype \in {"date", "time"}
                                 THEN UiFormat(t[x].ui, t[x].pic) ELSE <<>>]>>
              ELSE <<>>) \o FieldEntries(t, Tail(ids))
OfKind(t, kind) == InOrder({i \in 2..Len(t) : t[i].kind = kind})

\* The form stream is a second root of load_template_roots; its nodes have
\* no ui, caption, picture or items.  Its root element stands above the base subform.
AsTemplate(f) ==
    <<[d |-> 0, kind |-> "form", name |-> "", ui |-> "", caption |-> "",
       pic |-> NoPic, items |-> <<>>, bind |-> "", val |-> "", txt |-> FALSE]>> \o
    [i \in 1..Len(f) |->
        [d |-> f[i].d + 1, kind |-> f[i].kind, name |-> f[i].name, ui |-> "", caption |-> "",
         pic |-> NoPic, items |-> <<>>, bind |-> "", val |-> "", txt |-> FALSE]]

\* result_by_json_path as the sequence of its assignments: a later entry
\* for the same path replaces an earlier one
TypeDefs(tm, f) ==
    LET ft == AsTemplate(f)
    IN  GroupEntries(tm, OfKind(tm, "exclGroup")) \o
        (IF f = <<>> THEN <<>> ELSE GroupEntries(ft, OfKind(ft, "exclGroup"))) \o
        FieldEntries(tm, OfKind(tm, "field")) \o
        (IF f = <<>> THEN <<>> ELSE FieldEntries(ft, OfKind(ft, "field")))

HasDef(defs, p) == \E e \in 1..Len(defs) : defs[e].path = p
DefOf(defs, p) ==
    defs[CHOOSE e \in 1..Len(defs) :
            defs[e].path = p /\ \A h \in (e + 1)..Len(defs) : defs[h].path # p]

\* range(max(0, len(segments) - 6), len(segments))
SuffixWindow == 6
Suffix(p, n) == SubSeq(p, Len(p) - n + 1, Len(p))
\* the first of the suffix lengths lens, in order, that has an entry; 0 if none
RECURSIVE FirstHit(_, _, _)
FirstHit(defs, p, lens) ==
    IF lens = <<>> THEN 0
    ELSE IF HasDef(defs, Suffix(p, Head(lens))) THEN Head(lens)
    ELSE FirstHit(defs, p, Tail(lens))
Down(n) == [i \in 1..n |-> n + 1 - i]

\* _get_type_info_for_path on the index-free path p (base tag first).  The
\* slash-keyed map has the same entries as the dot-keyed one, so step 2
\* finds nothing step 1 did not.
TypeInfoForPath(defs, p) ==
    LET n == Len(p)
        h1 == FirstHit(defs, p, <<n>> \o Down(Min(n, SuffixWindow)))
        h3 == FirstHit(defs, p, <<n - 1>> \o Down(Min(n - 1, SuffixWindow)))
    IN  IF h1 > 0 THEN [type |-> DefOf(defs, Suffix(p, h1)).type,
                        options |-> DefOf(defs, Suffix(p, h1)).options,
                        format |-> DefOf(defs, Suffix(p, h1)).format]
        ELSE IF n > 1 /\ h3 > 0
             THEN [type |-> DefOf(defs, Suffix(p, h3)).type,
                   options |-> DefOf(defs, Suffix(p, h3)).options,
                   format |-> DefOf(defs, Suffix(p, h3)).format]
             ELSE [type |-> "text", options |-> <<>>, format |-> <<>>]

\* walk_template_and_set_types: every leaf replaced by its type information.
\* A list is walked with the path of its key, without the index.
JType(info) == [k |-> "type", v |-> info]
RECURSIVE TypesOf(_, _, _)
TypesOf(m, prefix, defs) ==
    [t \in DOMAIN m |->
        LET x == m[t]
            p == Append(prefix, t)
        IN  IF IsDict(x) THEN JDict(TypesOf(x.v, p, defs))
            ELSE IF IsList(x)
                 THEN JList([i \in 1..Len(x.v) |->
                               IF IsDict(x.v[i]) THEN JDict(TypesOf(x.v[i].v, p, defs))
                               ELSE JType(TypeInfoForPath(defs, p))])
                 ELSE JType(TypeInfoForPath(defs, p))]

\* the keys of json_path_type_map that a lookup by tag path can hit: the
\* leaves held by a dict (a leaf held by a list is stored under "path.[i]")
RECURSIVE TypeMapKeys(_, _)
TypeMapKeys(m, prefix) ==
    UNION { LET x == m[t]
                p == Append(prefix, t)
            IN  IF IsDict(x) THEN TypeMapKeys(x.v, p)
                ELSE IF IsList(x)
                     THEN UNION { IF IsDict(x.v[i]) THEN TypeMapKeys(x.v[i].v, p) ELSE {}
                                  : i \in 1..Len(x.v) }
                     ELSE {p}
          : t \in DOMAIN m }

(* --------------- _collect_form_field_values_from_pdf ------------------ *)
\* path_segments[1:] + [name] of every collected field
FormTuples(f) ==
    LET paths == CollectFormFieldPaths(f)
    IN  [k \in 1..Len(paths) |-> Tail(paths[k].path)]

\* build_path_with_array_indices for the k-th collected field
FormKeyPath(tuples, k) ==
    IF PathCount(tuples, tuples[k]) > 1
    THEN IndexedPath(tuples, tuples[k], OccIdx(tuples, k))
    ELSE Singles(tuples[k])

\* lines 1130-1153: the name of the first field below the group whose value
\* is neither empty nor "0"
GroupValue(f, g) ==
    LET sel == {h \in Desc(f, g) : /\ f[h].kind = "field" /\ f[h].name # ""
                                   /\ f[h].val # "" /\ f[h].val # "0"}
    IN  IF sel = {} THEN ""
        ELSE f[CHOOSE h \in sel : \A x \in sel : h <= x].name

\* results, in insertion order; every key carries its occurrence index, so
\* no key is met twice and each holds at most one value
CollectFormFieldValues(f) ==
    LET paths == CollectFormFieldPaths(f)
        tuples == FormTuples(f)
    IN  [k \in 1..Len(paths) |->
            LET val == IF f[paths[k].id].kind = "exclGroup"
                       THEN GroupValue(f, paths[k].id)
                       ELSE f[paths[k].id].val
            IN  [key |-> FormatKey(f[1].name, FormKeyPath(tuples, k)),
                 vals |-> IF val = "" THEN <<>> ELSE <<val>>]]

(* ------------------------ extract_field_values ------------------------ *)
\* int(v) for the raw values of the model
Digits == <<"0", "1", "2", "3", "4", "5", "6", "7", "8", "9">>
IsInt(v) == v \in RangeOf(Digits)
IntOf(v) == (CHOOSE i \in 1..Len(Digits) : Digits[i] = v) - 1

\* value_map = {"Y": "Yes", "N": "No", "1": "Yes", "0": "No"}
ValueMapKeys == {"Y", "N", "1", "0"}
ValueMap(v) == IF v = "Y" \/ v = "1" THEN "Yes" ELSE "No"

\* lines 771-788
DecodeRadio(v, info) ==
    LET options == info.options
        n == Len(options)
    IN  IF info.type = "radio" /\ options # <<>> /\ v # "" /\ v \notin RangeOf(options)
        THEN IF v \in ValueMapKeys /\ ValueMap(v) \in RangeOf(options)
             THEN ValueMap(v)
             ELSE IF IsInt(v)
                  THEN IF 0 <= IntOf(v) /\ IntOf(v) < n THEN options[IntOf(v) + 1]
                       ELSE IF 1 <= IntOf(v) /\ IntOf(v) <= n THEN options[IntOf(v)]
                       ELSE v
                  ELSE v
        ELSE v

\* json_path_type_map.get(clean_json_path) or json_path_type_map.get(json_path)
FieldTypeInfo(tpl, defs, base, jp) ==
    IF Tags(jp) \in TypeMapKeys(tpl, <<>>)
    THEN TypeInfoForPath(defs, <<base>> \o Tags(jp))
    ELSE [type |-> "none", options |-> <<>>, format |-> <<>>]

\* lines 753-796: the dataset values, written in field order
RECURSIVE FillFromDataset(_, _, _, _, _, _)
FillFromDataset(cur, tpl, defs, base, fields, n) ==
    IF n > Len(fields) THEN cur
    ELSE LET fld == fields[n]
             v == DecodeRadio(fld.text, FieldTypeInfo(tpl, defs, base, fld.json_path))
         IN  FillFromDataset(SetValueInNested(cur, fld.json_path, v, TRUE).obj,
                             tpl, defs, base, fields, n + 1)

\* lines 813-912 for one entry of form_values
MergeOne(cur, base, entry) ==
    LET parts == ParseKey(entry.key)
    IN  IF parts[1][1] # base \/ Len(parts) = 1 \/ entry.vals = <<>>
        THEN cur
        ELSE SetValueInNested(cur, Tail(parts), entry.vals[1], TRUE).obj

RECURSIVE MergeForm(_, _, _, _)
MergeForm(cur, base, results, n) ==
    IF n > Len(results) THEN cur
    ELSE MergeForm(MergeOne(cur, base, results[n]), base, results, n + 1)

\* the template after step 2 of extract_field_values (the dataset values)
DatasetPhase(t, f, tm) ==
    LET tpl == BuildFieldTemplate(t, f).tpl
    IN  FillFromDataset(tpl, tpl, TypeDefs(tm, f), t[1].tag, CollectLeafFields(t), 1)

\* the dict below the base tag that extract_field_values returns
ExtractFieldValues(t, f, tm) ==
    IF f = <<>> THEN DatasetPhase(t, f, tm)
    ELSE MergeForm(DatasetPhase(t, f, tm), t[1].tag, CollectFormFieldValues(f), 1)

\* the dict below the base tag that extract_field_types returns
ExtractFieldTypes(t, f, tm) ==
    TypesOf(BuildFieldTemplate(t, f).tpl, <<t[1].tag>>, TypeDefs(tm, f))

\* the dict below the base tag that extract_fields_from_pdf returns
ExtractFields(t, f) == BuildFieldTemplate(t, f).tpl

(* ----------------------- documents of the model ----------------------- *)
DsBase == [d |-> 0, tag |-> BaseTag, text |-> "", dg |-> FALSE]
\* a node of the form tree: val is the text of its value/text, txt tells
\* whether its value has a text child, ov whether its value carries
\* override="1"
FormBase ==
    [d |-> 0, kind |-> "subform", name |-> BaseTag, val |-> "", dg |-> FALSE,
     txt |-> FALSE, ov |-> FALSE]

\* preorder depths: a node is at most one level below the node before it
WellFormed(t) == \A i \in 2..Len(t) : t[i].d >= 1 /\ t[i].d <= t[i - 1].d + 1

Trees(base, nodes, maxNodes) ==
    UNION { {<<base>> \o q : q \in {x \in [1..n -> nodes] : WellFormed(<<base>> \o x)}}
            : n \in 0..maxNodes }

DsTags == {"Page1", "Item"}
DsTexts == {"", "A"}
DsNodes(maxDepth) ==
    [d : 1..maxDepth, tag : DsTags, text : DsTexts, dg : {FALSE}]

\* in a form tree only a subform has children
FormShape(f) == \A i \in 2..Len(f) : f[Parent(f, i)].kind = "subform"
FormNodes(maxDepth) ==
    [d : 1..maxDepth, kind : {"subform"}, name : {"Page1"}, val : {""}, dg : {FALSE},
     txt : {FALSE}, ov : {FALSE}]
    \cup
    [d : 1..maxDepth, kind : {"field"}, name : {"KeepPageSeparate", "Item"},
     val : {""}, dg : {FALSE}, txt : {FALSE}, ov : {FALSE}]
    \cup
    [d : 1..maxDepth, kind : {"field"}, name : {"KeepPageSeparate", "Item"},
     val : {"y"}, dg : {FALSE}, txt : {TRUE}, ov : {FALSE}]

\* the dataset of the worked example: Page1/{Name=Alice, Items/{Item=A, Item=B}}
ExampleDs ==
    << DsBase,
       [d |-> 1, tag |-> "Page1", text |-> "", dg |-> FALSE],
       [d |-> 2, tag |-> "Name", text |-> "Alice", dg |-> FALSE],
       [d |-> 2, tag |-> "Items", text |-> "", dg |-> FALSE],
       [d |-> 3, tag |-> "Item", text |-> "A", dg |-> FALSE],
       [d |-> 3, tag |-> "Item", text |-> "B", dg |-> FALSE] >>

DsFamily == Trees(DsBase, DsNodes(MaxDsDepth), MaxDsNodes) \cup {ExampleDs}
FormFamily ==
    {<<>>} \cup {f \in Trees(FormBase, FormNodes(MaxFormDepth), MaxFormNodes) : FormShape(f)}

(* --------------------------- the state machine ------------------------ *)
\* ds, form, tmpl: the dataset, form and template streams of the uploaded
\* document; schema, values, types: the last answer of the three extraction
\* endpoints (NoResult before the first call).
\* fields: the leaf fields last collected from the dataset tree; xfa: the
\* XFA path computed from the JSON key of each of them.
\* fill: "none" before fill_pdf ran on the document, then "done" or, when it
\* raised, "failed"; dsOut, formOut: the dataset and form streams of the PDF
\* it produced; values2: the answer of extract_field_values on that PDF.
\* faults: the stream writes that failed during the fill.
\* pdf: the structure of the uploaded file, "xfa" for a document that holds
\* the streams ds, form and tmpl; status: the response each extraction
\* endpoint gave.
\* route, pc: the endpoint and the position of each request to the portal
\* automation; holding: the requests inside `async with max_concurrent`;
\* created, closed: the requests whose BrowserAutomation.create() has
\* returned and whose automation.close() has been called.
\* store: the files on disk, uploads/<filename> and the temporary output of
\* a fill; last: the latest call of upload_and_extract.
VARIABLES ds, form, tmpl, schema, values, types, fields, xfa, fill, dsOut, formOut, values2,
          tmplOut, faults, pdf, status, route, pc, holding, created, closed, store, last
vars == <<ds, form, tmpl, schema, values, types, fields, xfa, fill, dsOut, formOut, values2,
          tmplOut, faults, pdf, status, route, pc, holding, created, closed, store, last>>
\* what the fill leaves behind, unchanged by every other operation
filled == <<fill, dsOut, formOut, values2, tmplOut>>
\* the uploaded document and what was extracted from it
docs == <<ds, form, tmpl, schema, values, types, fields, xfa>>
\* the state of the service layer around the XFA operations
service == <<faults, pdf, status, route, pc, holding, created, closed, store, last>>
portal == <<route, pc, holding, created, closed>>
Requests == {"r1", "r2", "r3"}
PortalIdle ==
    /\ route = [r \in Requests |-> "ws"]
    /\ pc = [r \in Requests |-> "idle"]
    /\ holding = {}
    /\ created = {}
    /\ closed = {}
Endpoints == {"upload", "values", "types"}
NotCalled == [code |-> 0, kind |-> "none"]
\* a file: a PDF with its three streams, no file, or the bytes a failed
\* write left behind
Paths == {"uploads", "output"}
Missing == [k |-> "missing", ds |-> <<>>, form |-> <<>>, tm |-> <<>>]
Partial == [k |-> "partial", ds |-> <<>>, form |-> <<>>, tm |-> <<>>]
PdfFile(t, f, tm) == [k |-> "pdf", ds |-> t, form |-> f, tm |-> tm]
NoCall == [k |-> "none", contents |-> Missing, prior |-> Missing, code |-> 0, wrote |-> FALSE]
files == <<store, last>>
FilesIdle ==
    /\ store = [p \in Paths |-> Missing]
    /\ last = NoCall
ServiceIdle ==
    /\ faults = {}
    /\ pdf = "xfa"
    /\ status = [e \in Endpoints |-> NotCalled]
    /\ PortalIdle
    /\ FilesIdle

NoResult == [k |-> "none", v |-> <<>>]

Init ==
    /\ ds \in DsFamily
    /\ form \in FormFamily
    /\ tmpl = <<>>
    /\ schema = NoResult
    /\ values = NoResult
    /\ types = NoResult
    /\ fields = <<>>
    /\ xfa = <<>>
    /\ fill = "none"
    /\ dsOut = <<>>
    /\ formOut = <<>>
    /\ values2 = NoResult
    /\ tmplOut = <<>>
    /\ ServiceIdle

\* POST /upload: extract_fields_from_pdf
UploadAndExtract ==
    /\ schema = NoResult
    /\ schema' = JDict(ExtractFields(ds, form))
    /\ UNCHANGED service
    /\ UNCHANGED <<ds, form, tmpl, values, types, fields, xfa, filled>>

\* GET values: extract_field_values
GetFieldValues ==
    /\ values = NoResult
    /\ values' = JDict(ExtractFieldValues(ds, form, tmpl))
    /\ UNCHANGED service
    /\ UNCHANGED <<ds, form, tmpl, schema, types, fields, xfa, filled>>

\* GET types: extract_field_types
GetFieldTypes ==
    /\ types = NoResult
    /\ types' = JDict(ExtractFieldTypes(ds, form, tmpl))
    /\ UNCHANGED service
    /\ UNCHANGED <<ds, form, tmpl, schema, values, fields, xfa, filled>>

Next == UploadAndExtract \/ GetFieldValues \/ GetFieldTypes
Spec == Init /\ [][Next]_vars

(* ------------------------------ properties ---------------------------- *)
\* the JSON value at a (tag, idx) path below a dict, NoResult when the path
\* does not lead anywhere
RECURSIVE ValueAt(_, _)
ValueAt(x, path) ==
    IF path = <<>> THEN x
    ELSE IF ~IsDict(x) \/ path[1][1] \notin DOMAIN x.v THEN NoResult
    ELSE LET y == x.v[path[1][1]]
         IN  IF path[1][2] < 0 THEN ValueAt(y, Tail(path))
             ELSE IF IsList(y) /\ path[1][2] < Len(y.v)
                  THEN ValueAt(y.v[path[1][2] + 1], Tail(path))
                  ELSE NoResult

\* same object key sets and same array lengths, all the way down
RECURSIVE SameShape(_, _)
SameShape(x, y) ==
    IF IsDict(x)
    THEN IsDict(y) /\ DOMAIN x.v = DOMAIN y.v /\ \A t \in DOMAIN x.v : SameShape(x.v[t], y.v[t])
    ELSE IF IsList(x)
         THEN IsList(y) /\ Len(x.v) = Len(y.v)
              /\ \A i \in 1..Len(x.v) : SameShape(x.v[i], y.v[i])
         ELSE ~IsDict(y) /\ ~IsList(y)

\* C1: the schema, the values and the types of one document have the same
\* set of leaf key-paths: no key or array slot is in one and not in another.
C1_SameKeySets ==
    (schema.k # "none" /\ values.k # "none" /\ types.k # "none") =>
        /\ LeafKeys(schema.v, <<>>) = LeafKeys(values.v, <<>>)
        /\ LeafKeys(schema.v, <<>>) = LeafKeys(types.v, <<>>)

\* C3: a key that holds a non-empty value after the dataset values were
\* written still holds that value after the form values were merged.
C3_DatasetAuthoritative ==
    values.k # "none" =>
        LET phase == JDict(DatasetPhase(ds, form, tmpl))
        IN  \A p \in LeafKeys(phase.v, <<>>) :
                (ValueAt(phase, p).k = "str" /\ ValueAt(phase, p).v # "") =>
                    (ValueAt(values, p).k = "str" /\ ValueAt(values, p).v = ValueAt(phase, p).v)

\* C5: value extraction never widens the schema: after extract_field_values
\* every object key set and every array length is that of the schema built
\* by _build_field_template.
C5_NeverWidens ==
    values.k # "none" => SameShape(JDict(BuildFieldTemplate(ds, form).tpl), values)

\* C6: every key that the form-value collection produces for a form field is
\* a leaf path that schema building put into the schema.
C6_SameIndexAssignment ==
    (schema.k # "none" /\ form # <<>>) =>
        \A n \in 1..Len(CollectFormFieldValues(form)) :
            Tail(ParseKey(CollectFormFieldValues(form)[n].key)) \in LeafKeys(schema.v, <<>>)

\* C7: every leaf path contributed by the dataset tree is still a leaf path
\* of the schema after the form-tree paths were merged.
C7_DatasetKeysKept ==
    schema.k # "none" => LeafKeys(BuildJsonTemplate(ds), <<>>) \subseteq LeafKeys(schema.v, <<>>)

\* the siblings of node i with its tag are all childless and kept as fields
PlainLeaves(t, i) ==
    \A j \in (IF SameTag(t, i) = {} THEN {i} ELSE SameTag(t, i)) :
        Kids(t, j) = {} /\ j \in LeafFieldIds(t)
SlotPath(t, i) == PathWithIndex(t, i)
ArrayPath(t, i) == Append(PathWithIndex(t, Parent(t, i)), <<t[i].tag, -1>>)
ExampleSchema ==
    JDict("Page1" :> JDict(("Name" :> JStr("")) @@
                           ("Items" :> JDict("Item" :> JList(<<JStr(""), JStr("")>>)))))
ExampleValues ==
    JDict("Page1" :> JDict(("Name" :> JStr("Alice")) @@
                           ("Items" :> JDict("Item" :> JList(<<JStr("A"), JStr("B")>>)))))

\* C9: a tag that occurs n > 1 times among the children of one dataset
\* parent, each occurrence a leaf, gives an array of n empty strings in the
\* schema and the text of the k-th sibling in slot k of the values; a tag
\* that occurs once gives a plain string key; the worked example gives the
\* schema and the values the specification lists.
C9_RepeatedSiblings ==
    /\ schema.k # "none" =>
          \A i \in 2..Len(ds) : PlainLeaves(ds, i) =>
              IF Cardinality(SameTag(ds, i)) > 1
              THEN /\ ValueAt(schema, ArrayPath(ds, i)).k = "list"
                   /\ Len(ValueAt(schema, ArrayPath(ds, i)).v) = Cardinality(SameTag(ds, i))
                   /\ ValueAt(schema, SlotPath(ds, i)).k = "str"
                   /\ ValueAt(schema, SlotPath(ds, i)).v = ""
              ELSE /\ ValueAt(schema, SlotPath(ds, i)).k = "str"
                   /\ ValueAt(schema, SlotPath(ds, i)).v = ""
    /\ values.k # "none" =>
          \A i \in 2..Len(ds) : PlainLeaves(ds, i) =>
              /\ ValueAt(values, SlotPath(ds, i)).k = "str"
              /\ ValueAt(values, SlotPath(ds, i)).v = ds[i].text
    /\ (ds = ExampleDs /\ form = <<>> /\ schema.k # "none") => JEq(schema, ExampleSchema)
    /\ (ds = ExampleDs /\ form = <<>> /\ values.k # "none") => JEq(values, ExampleValues)

(* ------------- the index given to a repeated form path ---------------- *)
\* Documents for the index rule: form trees of subforms and valueless
\* fields, over a dataset that holds indexed KeepPageSeparate groups or
\* nothing.
IdxFormNodes(maxDepth) ==
    [d : 1..maxDepth, kind : {"subform"}, name : {"Page1", "KeepPageSeparate"},
     val : {""}, dg : {FALSE}, txt : {FALSE}, ov : {FALSE}]
    \cup
    [d : 1..maxDepth, kind : {"field"}, name : {"A", "KeepPageSeparate"},
     val : {""}, dg : {FALSE}, txt : {FALSE}, ov : {FALSE}]
KeepDs ==
    << DsBase,
       [d |-> 1, tag |-> "Page1", text |-> "", dg |-> FALSE],
       [d |-> 2, tag |-> "KeepPageSeparate", text |-> "", dg |-> FALSE],
       [d |-> 2, tag |-> "KeepPageSeparate", text |-> "", dg |-> FALSE],
       [d |-> 3, tag |-> "A", text |-> "A", dg |-> FALSE] >>
InitIdx ==
    /\ ds \in {<<DsBase>>, KeepDs}
    /\ form \in {f \in Trees(FormBase, IdxFormNodes(MaxIdxDepth), MaxIdxNodes) : FormShape(f)}
    /\ tmpl = <<>>
    /\ schema = NoResult
    /\ values = NoResult
    /\ types = NoResult
    /\ fields = <<>>
    /\ xfa = <<>>
    /\ fill = "none"
    /\ dsOut = <<>>
    /\ formOut = <<>>
    /\ values2 = NoResult
    /\ tmplOut = <<>>
    /\ ServiceIdle
NextIdx == UploadAndExtract
SpecIdx == InitIdx /\ [][NextIdx]_vars

\* the paths the schema builder collected from the form tree, and what it
\* did with each
Collected == PathTails(form, ds[1].tag)
Assigned == BuildFieldTemplate(ds, form).out
\* how many collected paths start with q, and how many equal p
StartWith(q) ==
    Cardinality({j \in 1..Len(Collected) :
                   Len(Collected[j]) >= Len(q) /\ SubSeq(Collected[j], 1, Len(q)) = q})
Occurs(p) == Cardinality({j \in 1..Len(Collected) : Collected[j] = p})
\* the segments of p where the prefix before occurs once and the prefix up
\* to it more than once
Boundaries(p) ==
    {i \in 1..Len(p) : StartWith(SubSeq(p, 1, i - 1)) = 1 /\ StartWith(SubSeq(p, 1, i)) > 1}
\* the rule of the specification for the n-th collected path
RuleHolds(n) ==
    LET p == Collected[n]
        jp == Assigned[n].jp
        indexed == {i \in 1..Len(jp) : jp[i][2] >= 0}
    IN  /\ Len(jp) = Len(p)
        /\ \A i \in 1..Len(p) : jp[i][1] = p[i]
        /\ IF Occurs(p) > 1
           THEN /\ Cardinality(indexed) = 1
                /\ \A i \in indexed :
                     /\ jp[i][2] = Cardinality({j \in 1..(n - 1) : Collected[j] = p})
                     /\ IF Boundaries(p) # {}
                        THEN i \in Boundaries(p) /\ \A h \in Boundaries(p) : i <= h
                        ELSE i = Len(p)
           ELSE indexed = {}
\* the path lies below a Page1/KeepPageSeparate prefix that several
\* collected paths share
UnderRepeatedKeep(p) ==
    Len(p) >= 2 /\ p[1] = "Page1" /\ p[2] = "KeepPageSeparate"
    /\ StartWith(<<"Page1", "KeepPageSeparate">>) > 1

PathTags == {"A", "B"}
PathNodes(maxDepth) == [d : 1..maxDepth, tag : PathTags, text : {"", "x"}, dg : {FALSE}]
InitPath ==
    /\ ds \in Trees(DsBase, PathNodes(MaxPathDepth), MaxPathNodes)
    /\ form = <<>>
    /\ tmpl = <<>>
    /\ schema = NoResult
    /\ values = NoResult
    /\ types = NoResult
    /\ fields = <<>>
    /\ xfa = <<>>
    /\ fill = "none"
    /\ dsOut = <<>>
    /\ formOut = <<>>
    /\ values2 = NoResult
    /\ tmplOut = <<>>
    /\ ServiceIdle

\* _collect_leaf_fields on the dataset tree
CollectFields ==
    /\ fields = <<>>
    /\ fields' = CollectLeafFields(ds)
    /\ UNCHANGED service
    /\ UNCHANGED <<ds, form, tmpl, schema, values, types, xfa, filled>>

\* _json_path_to_xfa_path on the dotted key of every collected field
ConvertKeys ==
    /\ fields # <<>>
    /\ xfa = <<>>
    /\ xfa' = [n \in 1..Len(fields) |->
                 JsonPathToXfaPath(FormatKey(ds[1].tag, fields[n].json_path), ds[1].tag)]
    /\ UNCHANGED service
    /\ UNCHANGED <<ds, form, tmpl, schema, values, types, fields, filled>>

NextPath == CollectFields \/ ConvertKeys
SpecPath == InitPath /\ [][NextPath]_vars

\* the segments of a relative XPath: what stands between the slashes after
\* the leading "./"
RECURSIVE SplitSlashes(_, _)
SplitSlashes(toks, part) ==
    IF toks = <<>> THEN <<part>>
    ELSE IF Head(toks).k = "slash" THEN <<part>> \o SplitSlashes(Tail(toks), <<>>)
    ELSE SplitSlashes(Tail(toks), Append(part, Head(toks)))
XSegments(x) == IF Len(x) <= 2 THEN <<>> ELSE SplitSlashes(SubSeq(x, 3, Len(x)), <<>>)
HasIndex(seg) == \E n \in 1..Len(seg) : seg[n].k = "idx"
IndexOf(seg) == seg[CHOOSE n \in 1..Len(seg) : seg[n].k = "idx"].i

\* segment by segment, the XPath and the JSON path name the same tag, carry
\* an index together, and the XML index is the JSON index plus one
Positional(fld) ==
    LET segs == XSegments(fld.rel_xpath)
    IN  /\ Len(segs) = Len(fld.json_path)
        /\ \A j \in 1..Len(segs) :
             /\ segs[j][1] = TTag(fld.json_path[j][1])
             /\ HasIndex(segs[j]) <=> fld.json_path[j][2] >= 0
             /\ HasIndex(segs[j]) => IndexOf(segs[j]) = fld.json_path[j][2] + 1

\* C10 as stated: for every collected leaf the two paths are positionally
\* consistent and the XFA path computed from the dotted JSON key is exactly
\* rel_xpath.
C10_EveryLeaf ==
    /\ \A n \in 1..Len(fields) : Positional(fields[n])
    /\ xfa # <<>> => \A n \in 1..Len(fields) : xfa[n] = fields[n].rel_xpath

\* C10 amended: the same for every collected leaf other than the base node
\* itself.
C10_LeafBelowBase ==
    /\ \A n \in 1..Len(fields) : Positional(fields[n])
    /\ xfa # <<>> =>
         \A n \in 1..Len(fields) : fields[n].id # 1 => xfa[n] = fields[n].rel_xpath

\* the key of a leaf with an indexed segment above it has been converted
C10_Witness ==
    /\ xfa # <<>>
    /\ \E n \in 1..Len(fields) :
         /\ Len(fields[n].json_path) >= 2
         /\ fields[n].json_path[1][2] >= 1

(* ------------------------------ fill_pdf ------------------------------ *)
\* str.lower() on the strings of the model; no string of the model holds an
\* upper-case letter after its first character or a space, so the variants
\* selected[0].lower() + selected[1:] and selected.replace(" ", "") of a
\* label are Lower(label) and the label itself
Lower(s) ==
    CASE s = "Yes" -> "yes" [] s = "No" -> "no" [] s = "A" -> "a" [] s = "B" -> "b"
      [] s = "Y" -> "y" [] s = "N" -> "n" [] OTHER -> s

\* str(n) for a one-digit n
DigitStr(n) == Digits[n + 1]

\* The order of the keys of a Python dict is the order of their insertion.
\* Inserted: the (tag, idx) paths _build_field_template hands to
\* _set_in_nested, in order; a key of the dict at a prefix ranks by the first
\* of these paths that leads through it.
Norm(i) == IF i < 0 THEN 0 ELSE i
RECURSIVE OutPaths(_, _)
OutPaths(out, n) ==
    IF n > Len(out) THEN <<>>
    ELSE (IF out[n].branch = "raise" THEN <<>> ELSE <<out[n].jp>>) \o OutPaths(out, n + 1)
Inserted(t, f) ==
    [n \in 1..Len(CollectLeafFields(t)) |-> CollectLeafFields(t)[n].json_path]
    \o OutPaths(BuildFieldTemplate(t, f).out, 1)
Rank(ins, prefix, key) ==
    LET hits == {n \in 1..Len(ins) :
                   /\ Len(ins[n]) > Len(prefix)
                   /\ \A j \in 1..Len(prefix) :
                        /\ ins[n][j][1] = prefix[j][1]
                        /\ Norm(ins[n][j][2]) = Norm(prefix[j][2])
                   /\ ins[n][Len(prefix) + 1][1] = key}
    IN  IF hits = {} THEN Len(ins) + 1
        ELSE CHOOSE n \in hits : \A h \in hits : n <= h
RECURSIVE SortKeys(_, _, _)
SortKeys(S, ins, prefix) ==
    IF S = {} THEN <<>>
    ELSE LET key == CHOOSE x \in S :
                       \A y \in S : Rank(ins, prefix, x) <= Rank(ins, prefix, y)
         IN  <<key>> \o SortKeys(S \ {key}, ins, prefix)

\* the leaves below a dict in the order a recursive walk over items() and
\* enumerate() meets them, each as [path, v]; v is the string the walk hands
\* on ("" if value is None else str(value))
LeafStr(x) == IF x.k = "none" THEN "" ELSE x.v
RECURSIVE OrderedLeaves(_, _, _), LeavesOfKeys(_, _, _, _), LeavesOfItems(_, _, _, _, _)
OrderedLeaves(m, prefix, ins) ==
    LeavesOfKeys(m, SortKeys(DOMAIN m, ins, prefix), prefix, ins)
LeavesOfKeys(m, keys, prefix, ins) ==
    IF keys = <<>> THEN <<>>
    ELSE LET x == m[Head(keys)]
             here == IF IsDict(x)
                     THEN OrderedLeaves(x.v, Append(prefix, <<Head(keys), -1>>), ins)
                     ELSE IF IsList(x)
                          THEN LeavesOfItems(x.v, 1, Head(keys), prefix, ins)
                          ELSE <<[path |-> Append(prefix, <<Head(keys), -1>>), v |-> LeafStr(x)]>>
         IN  here \o LeavesOfKeys(m, Tail(keys), prefix, ins)
LeavesOfItems(items, i, key, prefix, ins) ==
    IF i > Len(items) THEN <<>>
    ELSE (IF IsDict(items[i])
          THEN OrderedLeaves(items[i].v, Append(prefix, <<key, i - 1>>), ins)
          ELSE IF IsList(items[i]) THEN <<>>
          ELSE <<[path |-> Append(prefix, <<key, i - 1>>), v |-> LeafStr(items[i])]>>)
         \o LeavesOfItems(items, i + 1, key, prefix, ins)

\* get_base_tag_from_json on {base: below}: the only key of the dict below
\* the top key when there is just one (every name of the model is
\* alphanumeric), else the top key
GetBaseTagFromJson(base, below) ==
    IF Cardinality(DOMAIN below) = 1 THEN CHOOSE key \in DOMAIN below : TRUE ELSE base

\* _key_exists_in_template below template[base_tag]
RECURSIVE KeyExistsInTemplate(_, _)
KeyExistsInTemplate(cur, path) ==
    IF path = <<>> THEN TRUE
    ELSE LET tag == path[1][1]
             idx == path[1][2]
         IN  IF IsDict(cur)
             THEN IF tag \notin DOMAIN cur.v THEN FALSE
                  ELSE LET x == cur.v[tag]
                       IN  IF IsList(x) /\ idx >= 0
                           THEN IF idx >= Len(x.v) THEN FALSE
                                ELSE KeyExistsInTemplate(x.v[idx + 1], Tail(path))
                           ELSE KeyExistsInTemplate(x, Tail(path))
             ELSE IF IsList(cur)
                  THEN IF idx >= 0 /\ idx < Len(cur.v)
                       THEN KeyExistsInTemplate(cur.v[idx + 1], Tail(path))
                       ELSE FALSE
                  ELSE FALSE

NoInfo == [type |-> "none", options |-> <<>>, format |-> <<>>]
TextInfo == [type |-> "text", options |-> <<>>, format |-> <<>>]

\* json_path_type_map.get(json_path) or .get(clean_json_path), else text
MapTypeInfo(tpl, defs, base, jp) ==
    IF FieldTypeInfo(tpl, defs, base, jp).type = "none" THEN TextInfo
    ELSE FieldTypeInfo(tpl, defs, base, jp)

\* _build_field_xpath_map: the entries [key, xpath, info] of field_xpath_map
\* and field_type_map (the two maps have the same keys), in insertion order.
\* The template is keyed by the dataset base tag, so with another base_tag
\* no key exists in it and both maps stay empty.
RECURSIVE DatasetEntries(_, _, _, _, _)
DatasetEntries(fields_, n, tpl, defs, base) ==
    IF n > Len(fields_) THEN <<>>
    ELSE (IF KeyExistsInTemplate(JDict(tpl), fields_[n].json_path)
          THEN <<[key |-> FormatKey(base, fields_[n].json_path),
                  xpath |-> fields_[n].rel_xpath,
                  info |-> MapTypeInfo(tpl, defs, base, fields_[n].json_path)]>>
          ELSE <<>>) \o DatasetEntries(fields_, n + 1, tpl, defs, base)
PutEntry(map, e) ==
    IF \E n \in 1..Len(map) : map[n].key = e.key
    THEN [n \in 1..Len(map) |-> IF map[n].key = e.key THEN e ELSE map[n]]
    ELSE Append(map, e)
RECURSIVE PutAll(_, _)
PutAll(map, es) == IF es = <<>> THEN map ELSE PutAll(PutEntry(map, Head(es)), Tail(es))
RECURSIVE TemplateEntries(_, _, _, _, _, _)
TemplateEntries(map, leaves, n, tpl, defs, base) ==
    IF n > Len(leaves) THEN map
    ELSE LET key == FormatKey(base, leaves[n].path)
         IN  TemplateEntries(
                 IF \E e \in 1..Len(map) : map[e].key = key THEN map
                 ELSE Append(map, [key |-> key, xpath |-> JsonPathToXfaPath(key, base),
                                   info |-> MapTypeInfo(tpl, defs, base, leaves[n].path)]),
                 leaves, n + 1, tpl, defs, base)
BuildFieldXpathMap(t, f, tm, baseTag) ==
    LET tpl == BuildFieldTemplate(t, f).tpl
        defs == TypeDefs(tm, f)
    IN  IF baseTag # t[1].tag THEN <<>>
        ELSE TemplateEntries(PutAll(<<>>, DatasetEntries(CollectLeafFields(t), 1, tpl, defs, baseTag)),
                             OrderedLeaves(tpl, <<>>, Inserted(t, f)), 1, tpl, defs, baseTag)

\* re.sub(r'\[\d+\]', '', key), and the numbers re.finditer finds in key
CleanKey(key) == SelectSeq(key, LAMBDA x : x.k # "idx")
KeyIndices(key) ==
    LET marks == SelectSeq(key, LAMBDA x : x.k = "idx")
    IN  [n \in 1..Len(marks) |-> marks[n].i]
\* ".".join(parts[:i])
DotPrefix(parts, i) == JoinParts(SubSeq(parts, 1, i), TDot)
EndsWith(toks, suf) ==
    Len(toks) >= Len(suf) /\ SubSeq(toks, Len(toks) - Len(suf) + 1, Len(toks)) = suf
\* part in key; no name of the model is a substring of another
Contains(toks, part) ==
    \E n \in 1..(Len(toks) - Len(part) + 1) : SubSeq(toks, n, n + Len(part) - 1) = part

MapHas(map, key) == \E e \in 1..Len(map) : map[e].key = key
MapEntry(map, key) == map[CHOOSE e \in 1..Len(map) : map[e].key = key]
First(S) == CHOOSE e \in S : \A h \in S : e <= h

\* _find_matching_xpath; <<>> stands for None
FindMatchingXpath(key, map, baseTag) ==
    LET matching == {e \in 1..Len(map) : CleanKey(map[e].key) = CleanKey(key)}
        exact == {e \in matching : KeyIndices(map[e].key) = KeyIndices(key)}
        parts == SplitDots(key, <<>>)
        n == Len(parts)
        prefixes == {i \in 1..n : MapHas(map, DotPrefix(parts, i))}
        fieldName == parts[n]
        parentName == parts[n - 1]
        pattern1 == <<TTag(baseTag), TDot, TTag("Page1"), TDot>> \o parentName \o <<TDot>> \o fieldName
        pattern2 == <<TTag(baseTag), TDot>> \o parentName \o <<TDot>> \o fieldName
        byName == {e \in 1..Len(map) : /\ EndsWith(map[e].key, <<TDot>> \o fieldName)
                                       /\ Contains(map[e].key, parentName)}
    IN  IF map = <<>> THEN <<>>
        ELSE IF MapHas(map, key) THEN MapEntry(map, key).xpath
        ELSE IF matching # {}
             THEN IF exact # {} THEN map[First(exact)].xpath ELSE map[First(matching)].xpath
        ELSE IF prefixes # {}
             THEN MapEntry(map, DotPrefix(parts, CHOOSE i \in prefixes : \A h \in prefixes : i >= h)).xpath
        ELSE IF n >= 2
             THEN IF MapHas(map, pattern1) THEN MapEntry(map, pattern1).xpath
                  ELSE IF MapHas(map, pattern2) THEN MapEntry(map, pattern2).xpath
                  ELSE IF byName # {} THEN map[First(byName)].xpath
                  ELSE <<>>
        ELSE <<>>

\* _json_path_to_xfa_path with a field map
JsonPathToXfaPathIn(key, baseTag, map) ==
    IF MapHas(map, key) THEN MapEntry(map, key).xpath ELSE JsonPathToXfaPath(key, baseTag)

\* field_type_map.get(key)
TypeGet(map, key) == IF MapHas(map, key) THEN MapEntry(map, key).info ELSE NoInfo

\* lines 311-358: [info, parent]; parent is radio_parent_path, <<>> for None
RECURSIVE RadioAbove(_, _, _)
RadioAbove(map, parts, i) ==
    IF i < 1 THEN [info |-> NoInfo, parent |-> <<>>]
    ELSE IF TypeGet(map, DotPrefix(parts, i)).type = "radio"
         THEN [info |-> TypeGet(map, DotPrefix(parts, i)), parent |-> DotPrefix(parts, i)]
    ELSE IF TypeGet(map, DotPrefix(parts, i + 1)).type = "radio"
         THEN [info |-> TypeGet(map, DotPrefix(parts, i + 1)), parent |-> DotPrefix(parts, i)]
    ELSE RadioAbove(map, parts, i - 1)
ScalarTypeInfo(map, key) ==
    LET parts == SplitDots(key, <<>>)
        above == RadioAbove(map, parts, Len(parts) - 1)
        named == {e \in 1..Len(map) : /\ map[e].info.type = "radio"
                                      /\ EndsWith(map[e].key, <<TDot>> \o parts[Len(parts)])}
    IN  IF map = <<>> THEN [info |-> NoInfo, parent |-> <<>>]
        ELSE IF MapHas(map, key) THEN [info |-> MapEntry(map, key).info, parent |-> <<>>]
        ELSE IF MapHas(map, CleanKey(key))
             THEN [info |-> MapEntry(map, CleanKey(key)).info, parent |-> <<>>]
        ELSE IF above.info.type # "none" THEN above
        ELSE IF named # {} THEN [info |-> map[First(named)].info, parent |-> <<>>]
        ELSE [info |-> NoInfo, parent |-> <<>>]

\* the first option that equals value when both are lower-cased; "" if none
LowerMatch(value, options) ==
    LET hits == {i \in 1..Len(options) : Lower(options[i]) = Lower(value)}
    IN  IF hits = {} THEN "" ELSE options[First(hits)]

\* _convert_value_for_field (no type information carries a value_map)
ConvertValueForField(value, info) ==
    LET options == info.options
        n == Len(options)
    IN  IF info.type = "none" \/ value = "" THEN value
        ELSE IF info.type = "radio" /\ options # <<>>
        THEN IF value \in RangeOf(options) THEN value
             ELSE IF value \in ValueMapKeys /\ ValueMap(value) \in RangeOf(options)
                  THEN ValueMap(value)
             ELSE IF IsInt(value) /\ 1 <= IntOf(value) /\ IntOf(value) <= n
                  THEN options[IntOf(value)]
             ELSE IF IsInt(value) /\ 0 <= IntOf(value) /\ IntOf(value) < n
                  THEN options[IntOf(value) + 1]
             ELSE IF LowerMatch(value, options) # "" THEN LowerMatch(value, options)
             ELSE value
        ELSE value

\* lines 394-419: the 1-based index written for a radio value
RadioIndexValue(converted, options) ==
    LET n == Len(options)
    IN  IF options = <<>> \/ converted = "" THEN converted
        ELSE IF IsInt(converted)
             THEN IF 1 <= IntOf(converted) /\ IntOf(converted) <= n THEN converted
                  ELSE IF 0 <= IntOf(converted) /\ IntOf(converted) < n
                       THEN DigitStr(IntOf(converted) + 1)
                       ELSE converted
        ELSE IF converted \in RangeOf(options)
             THEN DigitStr(First({i \in 1..n : options[i] = converted}))
             ELSE converted

\* lines 534-555, 1098-1121, 1247-1270: the selected option, "" for None.
\* labelFirst: the value is looked up among the options before it is read as
\* a number (the two radio-group passes), or only when it is no number (the
\* dataset pass).
SelectOption(converted, options, labelFirst) ==
    LET n == Len(options)
        byNumber == IF converted # "" /\ IsInt(converted)
                    THEN IF 1 <= IntOf(converted) /\ IntOf(converted) <= n
                         THEN options[IntOf(converted)]
                         ELSE IF 0 <= IntOf(converted) /\ IntOf(converted) < n
                              THEN options[IntOf(converted) + 1] ELSE ""
                    ELSE ""
        byToken == IF converted \in ValueMapKeys /\ ValueMap(converted) \in RangeOf(options)
                   THEN ValueMap(converted)
                   ELSE LowerMatch(converted, options)
    IN  IF labelFirst
        THEN IF converted \in RangeOf(options) THEN converted
             ELSE IF byNumber # "" THEN byNumber ELSE byToken
        ELSE IF converted = "" \/ IsInt(converted) THEN byNumber
             ELSE IF converted \in RangeOf(options) THEN converted ELSE byToken

(* ------------------- set_node and the dataset pass -------------------- *)
\* the parts of an XPath: what stands between its slashes after a leading
\* "./", the empty ones dropped
HasSlash(x) == \E n \in 1..Len(x) : x[n].k = "slash"
PathParts(x) ==
    LET rel == IF StartsWith(x, <<TDot, TSlash>>) THEN SubSeq(x, 3, Len(x)) ELSE x
    IN  SelectSeq(SplitSlashes(rel, <<>>), LAMBDA q : q # <<>>)
PartName(part) == IF part[1].k = "tag" THEN part[1].v ELSE "."

\* What set_node looks at in a tree: for each node its depth, what
\* strip_ns(c.tag) is compared with, and its name attribute ("" when the
\* element has none).
DsView(t) == [i \in 1..Len(t) |-> [d |-> t[i].d, tag |-> t[i].tag, name |-> ""]]
FormView(f) == [i \in 1..Len(f) |-> [d |-> f[i].d, tag |-> f[i].kind, name |-> f[i].name]]

\* "방법 1": from node cur down the parts, child by child; 0 when a part
\* finds no child
RECURSIVE WalkParts(_, _, _)
WalkParts(v, cur, parts) ==
    IF parts = <<>> THEN cur
    ELSE LET part == Head(parts)
             byTag == InOrder({j \in Kids(v, cur) : v[j].tag = PartName(part)})
             byName == InOrder({j \in Kids(v, cur) :
                                   v[j].name # "" /\ v[j].name = PartName(part)})
         IN  IF HasIndex(part)
             THEN IF IndexOf(part) >= 1 /\ IndexOf(part) <= Len(byTag)
                  THEN WalkParts(v, byTag[IndexOf(part)], Tail(parts))
                  ELSE IF IndexOf(part) = 0 /\ byTag # <<>>
                       THEN WalkParts(v, byTag[Len(byTag)], Tail(parts))
                       ELSE 0
             ELSE IF byTag # <<>> THEN WalkParts(v, byTag[1], Tail(parts))
             ELSE IF byName # <<>> THEN WalkParts(v, byName[1], Tail(parts))
             ELSE 0

\* "방법 2": the first node, in document order, that ends a chain of
\* elements below the base tagged as the parts name them; 0 if none
RECURSIVE EndsChain(_, _, _, _)
EndsChain(v, base, j, names) ==
    IF names = <<>> THEN TRUE
    ELSE /\ j \in Desc(v, base)
         /\ v[j].tag = names[Len(names)]
         /\ EndsChain(v, base, Parent(v, j), SubSeq(names, 1, Len(names) - 1))
SearchParts(v, base, parts) ==
    LET names == [n \in 1..Len(parts) |-> PartName(parts[n])]
        hits == {j \in Desc(v, base) : EndsChain(v, base, j, names)}
    IN  IF hits = {} THEN 0 ELSE First(hits)

\* set_node on the dataset tree below its base node; no element of a
\* dataset of the model is called "field"
DsSetNode(t, xpath, val) ==
    LET parts == PathParts(xpath)
        hit == WalkParts(DsView(t), 1, parts)
        any == SearchParts(DsView(t), 1, parts)
    IN  IF HasSlash(xpath)
        THEN IF parts = <<>> THEN t
             ELSE IF hit > 0 THEN [t EXCEPT ![hit].text = val]
             ELSE IF any > 0 THEN [t EXCEPT ![any].text = val]
             ELSE t
        ELSE IF xpath = <<TDot>> THEN [t EXCEPT ![1].text = val]
        ELSE t

\* parent_node.append(child)
InsertChild(t, p, node) ==
    LET pos == IF Desc(t, p) = {} THEN p ELSE CHOOSE h \in Desc(t, p) : \A g \in Desc(t, p) : h >= g
    IN  SubSeq(t, 1, pos) \o <<node>> \o SubSeq(t, pos + 1, Len(t))

\* lines 421-492: the index goes into the RadioButtonList child of the
\* parent of the field's node, a child that is made when there is none
RadioListWrite(t, xfaPath, final) ==
    LET segs == SplitSlashes(xfaPath, <<>>)
        init == SubSeq(segs, 1, Len(segs) - 1)
        parts == IF init = <<>> THEN <<>>
                 ELSE IF Len(init) = 1 THEN <<<<TDot>>>>
                 ELSE SelectSeq(Tail(init), LAMBDA q : q # <<>>)
        p == WalkParts(DsView(t), 1, parts)
        lists == IF p = 0 THEN {} ELSE {j \in Kids(t, p) : t[j].tag = "RadioButtonList"}
    IN  IF p = 0 THEN t
        ELSE IF lists # {} THEN [t EXCEPT ![First(lists)].text = final]
        ELSE InsertChild(t, p, [d |-> t[p].d + 1, tag |-> "RadioButtonList",
                                text |-> final, dg |-> FALSE])

\* lines 496-611: a radio value whose key is not in field_xpath_map
RECURSIVE SetVariants(_, _, _, _, _)
SetVariants(t, xfaPath, options, n, selected) ==
    IF n > Len(options) THEN t
    ELSE SetVariants(IF options[n] # selected /\ Lower(options[n]) = Lower(selected)
                     THEN DsSetNode(t, xfaPath \o <<TSlash, TTag(options[n])>>, "1")
                     ELSE t,
                     xfaPath, options, n + 1, selected)
GroupWrite(t, key, value, ti, given, map, baseTag) ==
    LET up == FindMatchingXpath(ti.parent, map, baseTag)
        xfaPath == IF ti.parent = <<>> THEN given
               ELSE IF up # <<>> THEN up
               ELSE JsonPathToXfaPathIn(ti.parent, baseTag, map)
        converted == ConvertValueForField(value, ti.info)
        selected == SelectOption(converted, ti.info.options, FALSE)
        t1 == DsSetNode(t, xfaPath \o <<TSlash, TTag(selected)>>, "1")
        t2 == SetVariants(t1, xfaPath, ti.info.options, 1, selected)
    IN  IF selected = "" THEN DsSetNode(t, xfaPath, converted)
        ELSE IF Lower(selected) # selected
             THEN DsSetNode(t2, xfaPath \o <<TSlash, TTag(Lower(selected))>>, "1")
             ELSE t2

\* lines 300-624: one value that is neither a dict nor a list
ScalarWrite(t, key, value, map, baseTag) ==
    LET found == FindMatchingXpath(key, map, baseTag)
        xfaPath == IF found # <<>> THEN found ELSE JsonPathToXfaPathIn(key, baseTag, map)
        ti == ScalarTypeInfo(map, key)
        converted == ConvertValueForField(value, ti.info)
    IN  IF ti.info.type = "radio"
        THEN IF MapHas(map, key)
             THEN RadioListWrite(t, xfaPath, RadioIndexValue(converted, ti.info.options))
             ELSE IF ti.info.options # <<>>
                  THEN GroupWrite(t, key, value, ti, xfaPath, map, baseTag)
                  ELSE DsSetNode(t, xfaPath, converted)
        ELSE DsSetNode(t, xfaPath, converted)

\* lines 274-299: one item of a list that is no dict
ListWrite(t, key, value, map, baseTag) ==
    LET found == FindMatchingXpath(key, map, baseTag)
        xfaPath == IF found # <<>> THEN found
               ELSE JsonPathToXfaPathIn(CleanKey(key), baseTag, map)
        info == IF map = <<>> THEN NoInfo
                ELSE IF MapHas(map, key) THEN MapEntry(map, key).info
                ELSE TypeGet(map, CleanKey(key))
    IN  DsSetNode(t, xfaPath, ConvertValueForField(value, info))

\* _traverse_json_to_xfa over the leaves of the data, in order
RECURSIVE TraverseJsonToXfa(_, _, _, _, _)
TraverseJsonToXfa(t, leaves, n, map, baseTag) ==
    IF n > Len(leaves) THEN t
    ELSE LET path == leaves[n].path
             key == FormatKey(baseTag, path)
         IN  TraverseJsonToXfa(
                 IF path[Len(path)][2] >= 0
                 THEN ListWrite(t, key, leaves[n].v, map, baseTag)
                 ELSE ScalarWrite(t, key, leaves[n].v, map, baseTag),
                 leaves, n + 1, map, baseTag)

(* ---------------------- the form radio-group pass --------------------- *)
\* lines 1207-1226: the value of the data at the parts of a key after the
\* base tag; NoResult for None
RECURSIVE DataAt(_, _)
DataAt(cur, parts) ==
    IF parts = <<>> THEN cur
    ELSE LET part == Head(parts)
             tag == IF part = <<>> THEN "" ELSE PartName(part)
         IN  IF part # <<>> /\ HasIndex(part)
             THEN IF IsDict(cur) /\ tag \in DOMAIN cur.v
                  THEN IF IsList(cur.v[tag]) /\ IndexOf(part) < Len(cur.v[tag].v)
                       THEN DataAt(cur.v[tag].v[IndexOf(part) + 1], Tail(parts))
                       ELSE NoResult
                  ELSE DataAt(cur, Tail(parts))
             ELSE IF IsDict(cur) /\ tag \in DOMAIN cur.v
                  THEN DataAt(cur.v[tag], Tail(parts))
                  ELSE NoResult

\* lines 1316-1326: down the parts by name attribute, else by tag, a part
\* being compared as the whole string between two slashes
RECURSIVE WalkNames(_, _, _)
WalkNames(v, cur, parts) ==
    IF parts = <<>> THEN cur
    ELSE LET part == Head(parts)
             plain == Len(part) = 1 /\ part[1].k = "tag"
             byName == IF plain
                       THEN InOrder({j \in Kids(v, cur) : v[j].name = part[1].v})
                       ELSE <<>>
             byTag == IF plain
                      THEN InOrder({j \in Kids(v, cur) : v[j].tag = part[1].v})
                      ELSE <<>>
         IN  IF byName # <<>> THEN WalkNames(v, byName[1], Tail(parts))
             ELSE IF byTag # <<>> THEN WalkNames(v, byTag[1], Tail(parts))
             ELSE 0

\* set_node on the form tree below base_node: a field takes the value in
\* its value/text, both made when missing, and override="1" on its value;
\* the text of another element is no part of the model
FormSetNode(f, b, xpath, val) ==
    LET parts == PathParts(xpath)
        hit == WalkParts(FormView(f), b, parts)
        any == SearchParts(FormView(f), b, parts)
        node == IF hit > 0 THEN hit ELSE any
    IN  IF parts = <<>> \/ node = 0 \/ f[node].kind # "field" THEN f
        ELSE [f EXCEPT ![node].val = val, ![node].txt = TRUE, ![node].ov = TRUE]

\* lines 1310-1349: the value/text of an option that was not selected goes
\* and its value, made when missing, takes override="1"
RECURSIVE ClearOthers(_, _, _, _, _, _)
ClearOthers(f, b, xpath, options, n, selected) ==
    IF n > Len(options) THEN f
    ELSE LET other == xpath \o <<TSlash, TTag(options[n])>>
             rel == IF StartsWith(other, <<TDot, TSlash>>)
                    THEN SubSeq(other, 3, Len(other)) ELSE other
             node == WalkNames(FormView(f), b, SplitSlashes(rel, <<>>))
         IN  ClearOthers(IF options[n] # selected /\ node > 0 /\ f[node].kind = "field"
                         THEN [f EXCEPT ![node].val = "", ![node].txt = FALSE,
                                        ![node].ov = TRUE]
                         ELSE f,
                         b, xpath, options, n + 1, selected)

RECURSIVE FormRadioLoop(_, _, _, _, _)
FormRadioLoop(f, b, below, map, n) ==
    IF n > Len(map) THEN f
    ELSE LET e == map[n]
             cur == DataAt(JDict(below), Tail(SplitDots(e.key, <<>>)))
             selected == SelectOption(ConvertValueForField(cur.v, e.info), e.info.options, TRUE)
         IN  FormRadioLoop(
                 IF e.info.type = "radio" /\ e.info.options # <<>>
                    /\ cur.k = "str" /\ selected # ""
                 THEN ClearOthers(FormSetNode(f, b, e.xpath \o <<TSlash, TTag(selected)>>, "1"),
                                  b, e.xpath, e.info.options, 1, selected)
                 ELSE f,
                 b, below, map, n + 1)

\* _fill_form_radio_groups; both maps are empty unless base_tag is the
\* dataset base tag, the top key of the data
FillFormRadioGroups(f, below, baseTag, map) ==
    LET bases == {i \in 1..Len(f) : f[i].kind = "subform" /\ f[i].name = baseTag}
    IN  IF f = <<>> \/ bases = {} THEN f
        ELSE IF Kids(f, First(bases)) = {} THEN f
        ELSE FormRadioLoop(f, First(bases), below, map, 1)

(* ---------------------- the template passes ---------------------------- *)
\* What set_node looks at in the template tree
TmplView(tm) == [i \in 1..Len(tm) |-> [d |-> tm[i].d, tag |-> tm[i].kind, name |-> tm[i].name]]

\* _get_value_by_full_json_path: down the dicts of the data by the names of
\* the path; NoResult for None, which stands for a missing key, a null and a
\* value that is no scalar
RECURSIVE GetValueByFullJsonPath(_, _)
GetValueByFullJsonPath(cur, names) ==
    IF names = <<>> THEN IF cur.k = "str" THEN cur ELSE NoResult
    ELSE IF IsDict(cur) /\ Head(names) \in DOMAIN cur.v
         THEN GetValueByFullJsonPath(cur.v[Head(names)], Tail(names))
         ELSE NoResult

\* walk of lines 1386-1466 from the first named subform b: the fields it
\* meets, a field being no further walked into, and the path segments it
\* holds on reaching node i, the names of the named subforms from b down
UpTo(tm, b, i) == {a \in (b + 1)..(i - 1) : i \in Desc(tm, a)}
WalkedFields(tm, b) ==
    InOrder({i \in Desc(tm, b) : /\ tm[i].kind = "field"
                                 /\ \A a \in UpTo(tm, b, i) : tm[a].kind # "field"})
PathSegments(tm, b, i) ==
    LET named == InOrder({a \in UpTo(tm, b, i) : tm[a].kind = "subform" /\ tm[a].name # ""})
    IN  <<tm[b].name>> \o [n \in 1..Len(named) |-> tm[named[n]].name]

\* lines 1399-1461 for the field i: it is left alone when it has no name,
\* when its bind has a match other than "none", and (line 1424) whenever it
\* has a parent element; else a non-empty value of the data goes into its
\* value/text, both made when missing
UnboundField(tm, b, i, data) ==
    LET got == GetValueByFullJsonPath(data, PathSegments(tm, b, i) \o <<tm[i].name>>)
    IN  IF tm[i].name = "" THEN tm
        ELSE IF tm[i].bind \notin {"", "none"} THEN tm
        ELSE IF Parent(tm, i) # 0 THEN tm
        ELSE IF got.k = "none" \/ got.v = "" THEN tm
        ELSE [tm EXCEPT ![i].val = got.v, ![i].txt = TRUE]
RECURSIVE UnboundLoop(_, _, _, _, _)
UnboundLoop(tm, b, ids, n, data) ==
    IF n > Len(ids) THEN tm
    ELSE UnboundLoop(UnboundField(tm, b, ids[n], data), b, ids, n + 1, data)

\* _fill_unbound_template_fields on the template stream of the output
FillUnboundTemplateFields(tm, data) ==
    LET subs == {i \in 2..Len(tm) : tm[i].kind = "subform" /\ tm[i].name # ""}
    IN  IF tm = <<>> \/ subs = {} THEN tm
        ELSE UnboundLoop(tm, First(subs), WalkedFields(tm, First(subs)), 1, data)

\* set_node on the template tree below base_node; the override attribute of
\* a template value and the text of an element that is no field are no part
\* of the model
TmplSetNode(tm, b, xpath, val) ==
    LET parts == PathParts(xpath)
        hit == WalkParts(TmplView(tm), b, parts)
        any == SearchParts(TmplView(tm), b, parts)
        node == IF hit > 0 THEN hit ELSE any
    IN  IF parts = <<>> \/ node = 0 \/ tm[node].kind # "field" THEN tm
        ELSE [tm EXCEPT ![node].val = val, ![node].txt = TRUE]

\* lines 1124-1140: every option field takes its own name
RECURSIVE NameOptions(_, _, _, _, _)
NameOptions(tm, b, xpath, options, n) ==
    IF n > Len(options) THEN tm
    ELSE NameOptions(TmplSetNode(tm, b, xpath \o <<TSlash, TTag(options[n])>>, options[n]),
                     b, xpath, options, n + 1)
\* the selected option is written first, the others after it in their order
SelectedFirst(options, selected) ==
    <<selected>> \o SelectSeq(options, LAMBDA o : o # selected)

RECURSIVE TemplateRadioLoop(_, _, _, _, _)
TemplateRadioLoop(tm, b, below, map, n) ==
    IF n > Len(map) THEN tm
    ELSE LET e == map[n]
             cur == DataAt(JDict(below), Tail(SplitDots(e.key, <<>>)))
             selected == SelectOption(ConvertValueForField(cur.v, e.info), e.info.options, TRUE)
         IN  TemplateRadioLoop(
                 IF e.info.type = "radio" /\ e.info.options # <<>>
                    /\ cur.k = "str" /\ selected # ""
                 THEN NameOptions(tm, b, e.xpath, SelectedFirst(e.info.options, selected), 1)
                 ELSE tm,
                 b, below, map, n + 1)

\* _fill_template_radio_groups
FillTemplateRadioGroups(tm, below, baseTag, map) ==
    LET bases == {i \in 1..Len(tm) : tm[i].kind = "subform" /\ tm[i].name = baseTag}
    IN  IF tm = <<>> \/ bases = {} THEN tm
        ELSE IF Kids(tm, First(bases)) = {} THEN tm
        ELSE TemplateRadioLoop(tm, First(bases), below, map, 1)

\* fill_pdf(pdf, {base: below}, out) without a base_tag_hint: [ok, ds, form, tm],
\* the dataset, form and template streams of the output, ok = FALSE when the call
\* raises.  It raises when the form stream gives no field path (line 815
\* reads form_field_count, which is then unbound) and when the data below
\* the inferred base tag is no dict (items() of line 252).
FillPdf(t, f, tm, below) ==
    LET baseTag == GetBaseTagFromJson(t[1].tag, below)
        inner == baseTag # t[1].tag
        target == IF inner THEN below[baseTag] ELSE JDict(below)
        map == BuildFieldXpathMap(t, f, tm, baseTag)
        under == OrderedLeaves(target.v, IF inner THEN <<<<baseTag, -1>>>> ELSE <<>>,
                               Inserted(t, f))
        leaves == IF inner
                  THEN [n \in 1..Len(under) |-> [path |-> Tail(under[n].path), v |-> under[n].v]]
                  ELSE under
    IN  IF CollectFormFieldPaths(f) = <<>> \/ ~IsDict(target)
        THEN [ok |-> FALSE, ds |-> <<>>, form |-> <<>>, tm |-> <<>>]
        ELSE [ok |-> TRUE,
              ds |-> TraverseJsonToXfa(t, leaves, 1, map, baseTag),
              form |-> FillFormRadioGroups(f, below, baseTag, map),
              tm |-> FillTemplateRadioGroups(
                         FillUnboundTemplateFields(
                             tm, JDict([top \in {t[1].tag} |-> JDict(below)])),
                         below, baseTag, map)]

(* ------------------ filling a document with a radio group ------------- *)
\* Documents with one radio group: the dataset holds its raw value at
\* Page1/Gender/RadioButtonList (or at Page1/Gender), the template declares
\* the exclGroup with one radioButton field per option, and the form stream
\* is absent, holds a text field only, or mirrors the group.
OptionPool == {"Yes", "No", "A"}
MaxOptions == 3
OptionLists ==
    {q \in UNION {[1..n -> OptionPool] : n \in 1..MaxOptions} :
        \A i, j \in 1..Len(q) : i # j => q[i] # q[j]}
RawValues == {"", "Y", "0", "1", "2", "A", "zz"}

RadioDs(raw, inner, named) ==
    << DsBase, [d |-> 1, tag |-> "Page1", text |-> "", dg |-> FALSE] >>
    \o (IF inner
        THEN << [d |-> 2, tag |-> "Gender", text |-> "", dg |-> FALSE],
                [d |-> 3, tag |-> "RadioButtonList", text |-> raw, dg |-> FALSE] >>
        ELSE << [d |-> 2, tag |-> "Gender", text |-> raw, dg |-> FALSE] >>)
    \o (IF named THEN << [d |-> 1, tag |-> "Name", text |-> "x", dg |-> FALSE] >> ELSE <<>>)

TNode(d, kind, name, ui) ==
    [d |-> d, kind |-> kind, name |-> name, ui |-> ui, caption |-> "",
     pic |-> NoPic, items |-> <<>>, bind |-> "", val |-> "", txt |-> FALSE]
RadioTemplate(options, inner) ==
    << TNode(0, "template", "", ""), TNode(1, "subform", BaseTag, ""),
       TNode(2, "subform", "Page1", "") >>
    \o (IF inner
        THEN << TNode(3, "subform", "Gender", ""), TNode(4, "exclGroup", "RadioButtonList", "") >>
        ELSE << TNode(3, "exclGroup", "Gender", "") >>)
    \o [n \in 1..Len(options) |->
            TNode(IF inner THEN 5 ELSE 4, "field", options[n], "radioButton")]

FNode(d, kind, name) ==
    [d |-> d, kind |-> kind, name |-> name, val |-> "", dg |-> FALSE,
     txt |-> FALSE, ov |-> FALSE]
NameForm == << FormBase, FNode(1, "field", "Name") >>
GroupForm(options, inner) ==
    << FormBase, FNode(1, "subform", "Page1") >>
    \o (IF inner
        THEN << FNode(2, "subform", "Gender"), FNode(3, "exclGroup", "RadioButtonList") >>
        ELSE << FNode(2, "exclGroup", "Gender") >>)
    \o [n \in 1..Len(options) |-> FNode(IF inner THEN 4 ELSE 3, "field", options[n])]

InitFill ==
    /\ \E raw \in RawValues, options \in OptionLists, inner \in BOOLEAN, named \in BOOLEAN :
          /\ ds = RadioDs(raw, inner, named)
          /\ tmpl = RadioTemplate(options, inner)
          /\ form \in {<<>>, NameForm, GroupForm(options, inner)}
    /\ schema = NoResult
    /\ values = NoResult
    /\ types = NoResult
    /\ fields = <<>>
    /\ xfa = <<>>
    /\ fill = "none"
    /\ dsOut = <<>>
    /\ formOut = <<>>
    /\ values2 = NoResult
    /\ tmplOut = <<>>
    /\ ServiceIdle

\* POST fill: fill_pdf with the values that extract_field_values returned,
\* unchanged.
FillFromValues ==
    /\ values.k # "none"
    /\ fill = "none"
    /\ \E r \in {FillPdf(ds, form, tmpl, values.v)} :
          /\ fill' = IF r.ok THEN "done" ELSE "failed"
          /\ dsOut' = r.ds
          /\ formOut' = r.form
          /\ tmplOut' = r.tm
    /\ UNCHANGED service
    /\ UNCHANGED <<ds, form, tmpl, schema, values, types, fields, xfa, values2>>

\* GET values on the produced PDF
ExtractFilled ==
    /\ fill = "done"
    /\ values2 = NoResult
    /\ values2' = JDict(ExtractFieldValues(dsOut, formOut, tmplOut))
    /\ UNCHANGED service
    /\ UNCHANGED <<ds, form, tmpl, schema, values, types, fields, xfa, fill, dsOut, formOut,
                   tmplOut>>

NextFill == GetFieldValues \/ FillFromValues \/ ExtractFilled
SpecFill == InitFill /\ [][NextFill]_vars

\* the decoding of a raw radio value that the rule gives: a label stays,
\* "Y" and "N" stand for the options "Yes" and "No", a number i in 1..len
\* stands for the i-th option, anything else stays
RuleDecode(raw, options) ==
    IF raw \in RangeOf(options) THEN raw
    ELSE IF raw = "Y" /\ "Yes" \in RangeOf(options) THEN "Yes"
    ELSE IF raw = "N" /\ "No" \in RangeOf(options) THEN "No"
    ELSE IF IsInt(raw) /\ 1 <= IntOf(raw) /\ IntOf(raw) <= Len(options)
         THEN options[IntOf(raw)]
         ELSE raw

\* C4: after extract_field_values, the value at the key of every dataset
\* field that is a radio field with options is the raw dataset value decoded
\* by the rule: a label of the options unchanged, "Y" as "Yes", "N" as "No",
\* a number i with 1 <= i <= len(options) as options[i-1], any other value
\* unchanged.
C4_RadioDecode ==
    values.k # "none" =>
        \A n \in 1..Len(CollectLeafFields(ds)) :
            LET fld == CollectLeafFields(ds)[n]
                info == FieldTypeInfo(BuildFieldTemplate(ds, form).tpl, TypeDefs(tmpl, form),
                                      ds[1].tag, fld.json_path)
            IN  (info.type = "radio" /\ info.options # <<>>) =>
                    /\ ValueAt(values, fld.json_path).k = "str"
                    /\ ValueAt(values, fld.json_path).v = RuleDecode(fld.text, info.options)

\* a value of a radio key in its canonical form, the label it stands for
Canonical(x, ty) ==
    IF x.k = "str" /\ ty.k = "type"
    THEN IF ty.v.type = "radio" THEN JStr(RuleDecode(x.v, ty.v.options)) ELSE x
    ELSE x

\* C2: when fill_pdf was given the values of extract_field_values unchanged
\* and extract_field_values ran on the PDF it produced, every key of the
\* first values holds the same value in the second, radio values being
\* compared as the labels they stand for.
C2_FillIdempotent ==
    (fill = "done" /\ values2.k # "none") =>
        LET tys == JDict(ExtractFieldTypes(ds, form, tmpl))
        IN  \A p \in LeafKeys(values.v, <<>>) :
                JEq(Canonical(ValueAt(values2, p), ValueAt(tys, p)),
                    Canonical(ValueAt(values, p), ValueAt(tys, p)))

(* --------------- the object built by path insertions ------------------ *)
\* schema holds the object that a sequence of _set_in_nested calls builds,
\* starting from the empty dict; every call inserts one (tag, idx) path.
MaxNestLen == 2
MaxNestLeaves == 3
NestTags == {"A", "B"}
NestIdx == {-1, 0, 1}
NestPaths == UNION {[1..n -> NestTags \X NestIdx] : n \in 1..MaxNestLen}

InitNest ==
    /\ ds = <<DsBase>>
    /\ form = <<>>
    /\ tmpl = <<>>
    /\ schema = JDict(EmptyDict)
    /\ values = NoResult
    /\ types = NoResult
    /\ fields = <<>>
    /\ xfa = <<>>
    /\ fill = "none"
    /\ dsOut = <<>>
    /\ formOut = <<>>
    /\ values2 = NoResult
    /\ tmplOut = <<>>
    /\ ServiceIdle

\* _set_in_nested(obj, path)
InsertPath ==
    /\ Cardinality(LeafKeys(schema.v, <<>>)) < MaxNestLeaves
    /\ \E p \in NestPaths : schema' = JDict(SetInNested(schema.v, p))
    /\ UNCHANGED service
    /\ UNCHANGED <<ds, form, tmpl, values, types, fields, xfa, filled>>

NextNest == InsertPath
SpecNest == InitNest /\ [][NextNest]_vars

\* the (tag, idx) positions of an object: every key, and every slot of a
\* list held by a key
RECURSIVE Positions(_, _)
Positions(m, prefix) ==
    UNION { LET x == m[t]
                here == Append(prefix, <<t, -1>>)
            IN  IF IsDict(x) THEN {here} \cup Positions(x.v, here)
                ELSE IF IsList(x)
                     THEN {here} \cup
                          UNION { {Append(prefix, <<t, i - 1>>)} \cup
                                  (IF IsDict(x.v[i])
                                   THEN Positions(x.v[i].v, Append(prefix, <<t, i - 1>>))
                                   ELSE {})
                                  : i \in 1..Len(x.v) }
                     ELSE {here}
          : t \in DOMAIN m }
Populated(x) == IsDict(x) /\ DOMAIN x.v # {}
IsPrefix(q, p) == Len(q) <= Len(p) /\ SubSeq(p, 1, Len(q)) = q

\* C11: whatever the insertions before, one more insertion leaves a
\* populated object at every position that held one, be the position a plain
\* key or an array slot; and a position that held a scalar holds a container
\* afterwards only if the inserted path goes through it to a deeper segment
\* (or asks for an array slot there).
C11_StructurePreserved ==
    [][\A p \in NestPaths :
          schema' = JDict(SetInNested(schema.v, p)) =>
              \A q \in Positions(schema.v, <<>>) :
                  /\ Populated(ValueAt(schema, q)) => Populated(ValueAt(schema', q))
                  /\ (ValueAt(schema, q).k = "str" /\ ValueAt(schema', q).k \in {"dict", "list"})
                        => (\E i \in 1..Len(p) :
                               /\ Tags(SubSeq(p, 1, i)) = Tags(q)
                               /\ (i < Len(p) \/ p[i][2] >= 0))]_vars

(* ------------- the type map of templates with several widgets --------- *)
MaxTypeFields == 2
TypeNames == <<"Name", "Date", "Item">>
Widgets == {"", "textEdit", "choiceList", "checkButton", "radioButton", "dateTimeEdit"}
DatePic == [kind |-> "date", inner |-> <<"y", "y", "y", "y", "m", "m", "d", "d">>]
TimePic == [kind |-> "time", inner |-> <<"h", ":", "M", "M">>]
\* a field of the template below the base subform: widget, picture, items
WidgetFields ==
    {w \in [ui : Widgets, pic : {NoPic, DatePic, TimePic}, items : {<<>>, <<"A", "B", "A">>}] :
        w.items # <<>> => w.ui = "choiceList"}
TypeTemplate(ws) ==
    << TNode(0, "template", "", ""), TNode(1, "subform", BaseTag, "") >> \o
    [n \in 1..Len(ws) |->
        [d |-> 2, kind |-> "field", name |-> TypeNames[n], ui |-> ws[n].ui, caption |-> "",
         pic |-> ws[n].pic, items |-> ws[n].items, bind |-> "", val |-> "", txt |-> FALSE]]
TypeTemplates ==
    UNION { {TypeTemplate(ws) : ws \in [1..n -> WidgetFields]} : n \in 1..MaxTypeFields }
\* form streams: none, the first field directly below the base subform (the
\* path it has in the template), the first field one subform deeper
TypeForms ==
    { <<>>,
      << FormBase, FNode(1, "field", TypeNames[1]) >>,
      << FormBase, FNode(1, "subform", "Page1"), FNode(2, "field", TypeNames[1]) >> }
TypeDs ==
    << DsBase, [d |-> 1, tag |-> TypeNames[1], text |-> "", dg |-> FALSE],
       [d |-> 1, tag |-> TypeNames[2], text |-> "", dg |-> FALSE] >>

InitType ==
    /\ ds = TypeDs
    /\ form \in TypeForms
    /\ tmpl \in TypeTemplates
    /\ schema = NoResult
    /\ values = NoResult
    /\ types = NoResult
    /\ fields = <<>>
    /\ xfa = <<>>
    /\ fill = "none"
    /\ dsOut = <<>>
    /\ formOut = <<>>
    /\ values2 = NoResult
    /\ tmplOut = <<>>
    /\ ServiceIdle
NextType == GetFieldTypes
SpecType == InitType /\ [][NextType]_vars

\* the type the widget table of the type engine gives (dateTimeEdit: date or time)
WidgetTypes(ui) ==
    IF ui = "textEdit" THEN {"text"}
    ELSE IF ui = "choiceList" THEN {"select"}
    ELSE IF ui = "checkButton" THEN {"checkbox"}
    ELSE IF ui = "radioButton" THEN {"radio"}
    ELSE IF ui = "dateTimeEdit" THEN {"date", "time"}
    ELSE {}
TemplateFields == {i \in 2..Len(tmpl) : tmpl[i].kind = "field" /\ tmpl[i].name # ""}
StoredEntry(i) == DefOf(TypeDefs(tmpl, form), NamePath(tmpl, i))

\* C12: once the type map of a document is built, the entry stored for the
\* structural path of every named template field that has a widget has the
\* type of that widget, and a select entry has the field's items without
\* duplicates in their order; the form stream may define the same path.
C12_TypeFollowsWidget ==
    types # NoResult =>
        \A i \in TemplateFields :
            tmpl[i].ui \in Widgets \ {""} =>
                /\ StoredEntry(i).type \in WidgetTypes(tmpl[i].ui)
                /\ tmpl[i].ui = "choiceList" => StoredEntry(i).options = Dedupe(tmpl[i].items)

(* ---------------------- the descriptor of a radio group --------------- *)
\* field_type_info.get("value_map", {}): the value map of a stored entry
EntryValueMap(e) == IF "value_map" \in DOMAIN e THEN e.value_map ELSE <<>>

NamedGroups == {g \in 2..Len(tmpl) : tmpl[g].kind = "exclGroup" /\ tmpl[g].name # ""}
OptionFields(g) == {h \in Desc(tmpl, g) : tmpl[h].kind = "field"}
LabelOf(h) == IF tmpl[h].caption # "" THEN tmpl[h].caption ELSE tmpl[h].name

\* C13: once the type engine ran on a document, the entry stored for the
\* structural path of every named exclGroup is a radio descriptor whose options
\* are the distinct labels of the child fields in order and whose value map
\* takes each label to the encoded value of its child (the name of the child,
\* the templates here giving no explicit value).
C13_RadioDescriptor ==
    values # NoResult =>
        \A g \in NamedGroups :
            LET e == DefOf(TypeDefs(tmpl, form), NamePath(tmpl, g))
            IN  /\ e.type = "radio"
                /\ e.options = CollectRadioOptions(tmpl, g)
                /\ DOMAIN EntryValueMap(e) = {LabelOf(h) : h \in OptionFields(g)}
                /\ \A h \in OptionFields(g) :
                       LabelOf(h) \in DOMAIN EntryValueMap(e) =>
                           EntryValueMap(e)[LabelOf(h)] = tmpl[h].name

(* ------------------- pictures of dateTimeEdit fields ------------------ *)
MaxPicTokens == 3
\* year, month or minute, day, hour, second and AM/PM tokens and a separator
PicTokens ==
    { <<"y", "y", "y", "y">>, <<"y", "y">>, <<"m", "m">>, <<"M", "M">>, <<"d", "d">>,
      <<"h">>, <<"H", "H">>, <<"s", "s">>, <<"S", "S">>, <<"A">>, <<"A", "A">>, <<":">> }
RECURSIVE Concat(_)
Concat(q) == IF q = <<>> THEN <<>> ELSE Head(q) \o Concat(Tail(q))
PicInners == UNION { {Concat(q) : q \in [1..n -> PicTokens]} : n \in 1..MaxPicTokens }
MaskPic == [kind |-> "text", inner |-> <<"A", "9", "A", " ", "9", "A", "9">>]
Pictures ==
    [kind : {"date", "time", "text", "num"}, inner : PicInners] \cup {MaskPic, DatePic, TimePic}
PicTemplate(pic) ==
    << TNode(0, "template", "", ""), TNode(1, "subform", BaseTag, ""),
       [d |-> 2, kind |-> "field", name |-> TypeNames[2], ui |-> "dateTimeEdit",
        caption |-> "", pic |-> pic, items |-> <<>>, bind |-> "", val |-> "",
        txt |-> FALSE] >>

InitPic ==
    /\ ds = TypeDs
    /\ form = <<>>
    /\ tmpl \in {PicTemplate(pic) : pic \in Pictures}
    /\ schema = NoResult
    /\ values = NoResult
    /\ types = NoResult
    /\ fields = <<>>
    /\ xfa = <<>>
    /\ fill = "none"
    /\ dsOut = <<>>
    /\ formOut = <<>>
    /\ values2 = NoResult
    /\ tmplOut = <<>>
    /\ ServiceIdle
NextPic == GetFieldTypes
SpecPic == InitPic /\ [][NextPic]_vars

\* the picture of the dateTimeEdit field and the type information answered for it
ThePic == tmpl[3].pic
DateInfo == types.v[TypeNames[2]].v
\* a canonical picture: upper-case year, month, day and hour letters, and
\* an AM/PM marker only as AA
Canonical14(s) ==
    /\ \A i \in 1..Len(s) : s[i] \notin {"y", "m", "d", "h", "a"}
    /\ \A i \in 1..Len(s) :
          s[i] = "A" => (i > 1 /\ s[i - 1] = "A") \/ (i < Len(s) /\ s[i + 1] = "A")
\* an hour, second or AM/PM letter, or a minute letter of a time picture
HasClockToken(pic) ==
    \E i \in 1..Len(pic.inner) :
        \/ pic.inner[i] \in {"h", "H", "s", "S", "a", "A"}
        \/ pic.kind = "time" /\ pic.inner[i] \in {"m", "M"}

\* C14: the format answered for a dateTimeEdit field is none exactly when its
\* picture is a text or number mask; the format of a date or time picture
\* built from date and time tokens is canonical; and the field is of type
\* time when the picture has an hour, minute, second or AM/PM token, else
\* of type date.
C14_PictureNormalized ==
    types # NoResult =>
        /\ DateInfo.format = <<>> <=> ThePic.kind \in {"text", "num"}
        /\ ThePic.kind \in {"date", "time"} => Canonical14(DateInfo.format)
        /\ ThePic.kind \in {"date", "time"} =>
              DateInfo.type = (IF HasClockToken(ThePic) THEN "time" ELSE "date")

(* --------------- filling a document with edited values ---------------- *)
\* The document: the dataset leaves Page1/Name and Item, and a form stream
\* with the field Name, which has no node in the dataset.
EditDs ==
    << DsBase, [d |-> 1, tag |-> "Page1", text |-> "", dg |-> FALSE],
       [d |-> 2, tag |-> "Name", text |-> "x", dg |-> FALSE],
       [d |-> 1, tag |-> "Item", text |-> "y", dg |-> FALSE] >>
\* The fill input gives each of four leaves a text, the empty string or
\* null, or leaves it out: Page1.Name and Item (in the dataset), Name (in
\* the form stream only) and Page2.Name (in neither).
JNull == NoResult
EditChoices == {"absent", "null", "empty", "text"}
EditLeaf(c) == IF c = "null" THEN JNull ELSE JStr(IF c = "text" THEN "v" ELSE "")
EditUnder(c) == JDict([t \in {"Name"} |-> EditLeaf(c)])
EditInput(a) ==
    [t \in ({"Page1" : x \in {1} \cap {y \in {1} : a[1] # "absent"}} \cup
            {"Item" : x \in {1} \cap {y \in {1} : a[2] # "absent"}} \cup
            {"Name" : x \in {1} \cap {y \in {1} : a[3] # "absent"}} \cup
            {"Page2" : x \in {1} \cap {y \in {1} : a[4] # "absent"}}) |->
        IF t = "Page1" THEN EditUnder(a[1])
        ELSE IF t = "Item" THEN EditLeaf(a[2])
        ELSE IF t = "Name" THEN EditLeaf(a[3])
        ELSE EditUnder(a[4])]
EditInputs == {EditInput(a) : a \in [1..4 -> EditChoices]}

\* values holds the body of the fill request
InitEdit ==
    /\ ds = EditDs
    /\ form = NameForm
    /\ tmpl = <<>>
    /\ schema = NoResult
    /\ values \in {JDict(m) : m \in EditInputs}
    /\ types = NoResult
    /\ fields = <<>>
    /\ xfa = <<>>
    /\ fill = "none"
    /\ dsOut = <<>>
    /\ formOut = <<>>
    /\ values2 = NoResult
    /\ tmplOut = <<>>
    /\ ServiceIdle
NextEdit == FillFromValues \/ ExtractFilled
SpecEdit == InitEdit /\ [][NextEdit]_vars

\* the nodes of a dataset tree at a tag path below the base node
NodesAt(t, tags) == {i \in 2..Len(t) : Tags(PathWithIndex(t, i)) = tags}

\* C15: after a fill, every leaf of the input that holds a string and whose
\* tag path had no node in the dataset tree has a node at that path in the
\* filled dataset tree, and the text of that node is the value.
C15_MissingCreated ==
    fill = "done" =>
        \A p \in LeafKeys(values.v, <<>>) :
            (ValueAt(values, p).k = "str" /\ NodesAt(ds, Tags(p)) = {}) =>
                \E i \in NodesAt(dsOut, Tags(p)) : dsOut[i].text = ValueAt(values, p).v

\* C16: after a fill, a leaf node of the dataset tree whose leaf in the input
\* is null or is left out has the text it had before the fill.
C16_NullAbsentUntouched ==
    fill = "done" =>
        \A i \in 2..Len(ds) :
            (IsLeafEl(ds, i) /\ ValueAt(values, Singles(Tags(PathWithIndex(ds, i)))).k = "none")
                => \E j \in NodesAt(dsOut, Tags(PathWithIndex(ds, i))) : dsOut[j].text = ds[i].text

(* ------------- filling a radio group with an edited value ------------- *)
\* The documents of the radio family; the fill input is the answer of
\* extract_field_values with the value of the radio leaf (the only leaf below
\* Page1) replaced by a value of the client's.
ChoiceValues == {"", "Y", "N", "0", "1", "2", "A", "yes", "zz"}
RECURSIVE WithLeaves(_, _)
WithLeaves(x, v) ==
    IF IsDict(x) THEN JDict([t \in DOMAIN x.v |-> WithLeaves(x.v[t], v)])
    ELSE IF IsList(x) THEN JList([i \in 1..Len(x.v) |-> WithLeaves(x.v[i], v)])
    ELSE JStr(v)
ChoiceInput(t, f, tm, v) ==
    LET got == ExtractFieldValues(t, f, tm)
    IN  [key \in DOMAIN got |-> IF key = "Page1" THEN WithLeaves(got[key], v) ELSE got[key]]

InitChoice ==
    /\ \E raw \in {"", "1"}, options \in OptionLists, inner \in BOOLEAN, named \in BOOLEAN :
          /\ ds = RadioDs(raw, inner, named)
          /\ tmpl = RadioTemplate(options, inner)
          /\ form \in {NameForm, GroupForm(options, inner)}
    /\ \E v \in ChoiceValues : values = JDict(ChoiceInput(ds, form, tmpl, v))
    /\ schema = NoResult
    /\ types = NoResult
    /\ fields = <<>>
    /\ xfa = <<>>
    /\ fill = "none"
    /\ dsOut = <<>>
    /\ formOut = <<>>
    /\ values2 = NoResult
    /\ tmplOut = <<>>
    /\ ServiceIdle
NextChoice == FillFromValues \/ ExtractFilled
SpecChoice == InitChoice /\ [][NextChoice]_vars

\* the radio leaf of the input, its value, and the group of the template
ChoiceLeaf == CHOOSE p \in LeafKeys(values.v, <<>>) : p[1][1] = "Page1"
ChoiceValue == ValueAt(values, ChoiceLeaf).v
ChoiceGroup == CHOOSE g \in 2..Len(tmpl) : tmpl[g].kind = "exclGroup"
ChoiceOptions == CollectRadioOptions(tmpl, ChoiceGroup)
\* the option the fill selects for the value: _convert_value_for_field, then
\* the selection of the radio-group passes
ChoiceSelected ==
    SelectOption(ConvertValueForField(ChoiceValue,
                                      [type |-> "radio", options |-> ChoiceOptions,
                                       format |-> <<>>]),
                 ChoiceOptions, TRUE)

\* the stated order: label, 1-based index, 0-based index, boolean token,
\* label without regard to case; "" when no rule applies
StatedSelect(v, options) ==
    LET n == Len(options)
    IN  IF v \in RangeOf(options) THEN v
        ELSE IF v # "" /\ IsInt(v) /\ 1 <= IntOf(v) /\ IntOf(v) <= n THEN options[IntOf(v)]
        ELSE IF v # "" /\ IsInt(v) /\ 0 <= IntOf(v) /\ IntOf(v) < n THEN options[IntOf(v) + 1]
        ELSE IF v \in {"Y", "1"} /\ "Yes" \in RangeOf(options) THEN "Yes"
        ELSE IF v \in {"N", "0"} /\ "No" \in RangeOf(options) THEN "No"
        ELSE IF v = "" THEN ""
        ELSE LowerMatch(v, options)

\* C17: the option a fill selects for the value of a radio field with
\* options is the one the first applicable rule gives, the rules being tried
\* in the order exact label, 1-based index, 0-based index, boolean token,
\* label without regard to case.
C17_SelectionOrder ==
    (fill = "done" /\ ChoiceOptions # <<>>) =>
        ChoiceSelected = StatedSelect(ChoiceValue, ChoiceOptions)

\* the dataset node at the canonical path of the radio leaf
ChoiceNode == CHOOSE i \in 2..Len(ds) : Tags(PathWithIndex(ds, i)) = Tags(ChoiceLeaf)
LeafPaths(t) == {PathWithIndex(t, i) : i \in LeafFieldIds(t)}
OptionIndex(o, options) == CHOOSE i \in 1..Len(options) : options[i] = o

\* C18: the radio leaf of these documents is a node of the dataset tree.
\* After a fill whose value selects an option, that node holds the 1-based
\* index of the option or its label, the tree has no element it had not
\* before, no other node has changed, and the leaf paths of the tree are
\* those from before the fill.
C18_RadioInPlace ==
    (fill = "done" /\ ChoiceSelected # "") =>
        /\ Len(dsOut) = Len(ds)
        /\ \A i \in 1..Len(ds) : i # ChoiceNode => dsOut[i] = ds[i]
        /\ dsOut[ChoiceNode].text \in
              {DigitStr(OptionIndex(ChoiceSelected, ChoiceOptions)), ChoiceSelected}
        /\ LeafPaths(dsOut) = LeafPaths(ds)

(* ------------- filling a radio group through a key below it ----------- *)
\* Documents whose group Page1/Gender is a bound dataset leaf and which may
\* hold a second instance of the group, Sub/Page1/Gender, with one child
\* node per option.  The data names a key below the group, which is in no
\* field map, so the fill takes the branch of lines 496-611.
GroupOptionLists == {q \in OptionLists : Len(q) >= 2}
GivenValues == {"1", "2", "Yes", "No", "zz"}
DNode(d, tag, text) == [d |-> d, tag |-> tag, text |-> text, dg |-> FALSE]
GroupDs(options, withKids) ==
    << DsBase, DNode(1, "Page1", ""), DNode(2, "Gender", "1") >>
    \o (IF withKids
        THEN << DNode(1, "Sub", ""), DNode(2, "Page1", ""), DNode(3, "Gender", "") >>
             \o [n \in 1..Len(options) |-> DNode(4, options[n], "")]
        ELSE <<>>)
    \o << DNode(1, "Name", "x") >>
GroupInput(key, v) ==
    JDict([top \in {"Page1", "Name"} |->
              IF top = "Name" THEN JStr("x")
              ELSE JDict([g \in {"Gender"} |-> JDict([k \in {key} |-> JStr(v)])])])
GroupKeys(options) == {"Sel"} \cup RangeOf(options)

InitGroup ==
    /\ \E options \in GroupOptionLists, withKids \in BOOLEAN :
          /\ ds = GroupDs(options, withKids)
          /\ tmpl = RadioTemplate(options, FALSE)
          /\ \E key \in GroupKeys(options), v \in GivenValues : values = GroupInput(key, v)
    /\ form = NameForm
    /\ schema = NoResult
    /\ types = NoResult
    /\ fields = <<>>
    /\ xfa = <<>>
    /\ fill = "none"
    /\ dsOut = <<>>
    /\ formOut = <<>>
    /\ values2 = NoResult
    /\ tmplOut = <<>>
    /\ ServiceIdle

\* POST fill on the PDF that the last fill produced, with other data
FillAgain ==
    /\ fill = "done"
    /\ \E key \in GroupKeys(ChoiceOptions), v \in GivenValues :
          values' = GroupInput(key, v)
    /\ ds' = dsOut
    /\ form' = formOut
    /\ fill' = "none"
    /\ dsOut' = <<>>
    /\ formOut' = <<>>
    /\ values2' = NoResult
    /\ tmpl' = tmplOut
    /\ tmplOut' = <<>>
    /\ UNCHANGED service
    /\ UNCHANGED <<schema, types, fields, xfa>>

NextGroup == FillFromValues \/ ExtractFilled \/ FillAgain
SpecGroup == InitGroup /\ [][NextGroup]_vars

\* the value the data gives below the group and the option that lines
\* 541-555 select for it
GivenValue ==
    LET g == values.v["Page1"].v["Gender"].v
    IN  g[CHOOSE k \in DOMAIN g : TRUE].v
GroupSelected ==
    SelectOption(ConvertValueForField(GivenValue,
                                      [type |-> "radio", options |-> ChoiceOptions,
                                       format |-> <<>>]),
                 ChoiceOptions, FALSE)
\* the option child nodes of the group in a dataset tree
OptionKids(t) ==
    {j \in 2..Len(t) : /\ t[j].tag \in RangeOf(ChoiceOptions)
                       /\ t[Parent(t, j)].tag = "Gender"}

\* C19: after a fill that selects an option of a group whose option child
\* nodes are in the dataset tree, the child named after that option holds
\* "1" and every other option child is empty; whatever fills came before, at
\* most one option child of the group is non-empty.
C19_ExclusiveInDataset ==
    /\ (fill = "done" /\ GroupSelected # "" /\ OptionKids(ds) # {}) =>
          \A j \in OptionKids(dsOut) :
              dsOut[j].text = IF dsOut[j].tag = GroupSelected THEN "1" ELSE ""
    /\ (fill = "done" =>
          Cardinality({j \in OptionKids(dsOut) : dsOut[j].text # ""}) <= 1)

(* ---------------- the radio-group pass over the form tree -------------- *)
\* Documents with one or two instances of the subform Page1, each with
\* the bound leaf Gender in the dataset and the exclGroup Gender in the form
\* stream, where one option field at most holds a selection made before.
\* With more than one instance the paths of the group carry repetition
\* indices.
Repeats == {1, 2}
FormOptionLists == {q \in OptionLists : Len(q) = 2}
FormValues == {"Yes", "No", "1", "2", "zz"}
RECURSIVE RepDsBody(_)
RepDsBody(n) ==
    IF n = 0 THEN <<>>
    ELSE RepDsBody(n - 1) \o << DNode(1, "Page1", ""), DNode(2, "Gender", "") >>
RepDs(n) == << DsBase >> \o RepDsBody(n) \o << DNode(1, "Name", "x") >>
\* priors[r] is the position of the option selected before in instance r,
\* 0 for none
OptionField(o, chosen) ==
    IF chosen THEN [FNode(3, "field", o) EXCEPT !.val = "1", !.txt = TRUE]
    ELSE FNode(3, "field", o)
RECURSIVE RepFormBody(_, _, _)
RepFormBody(options, priors, n) ==
    IF n = 0 THEN <<>>
    ELSE RepFormBody(options, priors, n - 1)
         \o << FNode(1, "subform", "Page1"), FNode(2, "exclGroup", "Gender") >>
         \o [k \in 1..Len(options) |-> OptionField(options[k], priors[n] = k)]
RepForm(options, priors) ==
    << FormBase >> \o RepFormBody(options, priors, Len(priors))
    \o << FNode(1, "field", "Name") >>
RepInput(vs) ==
    LET page(r) == JDict([g \in {"Gender"} |-> JStr(vs[r])])
    IN  JDict([top \in {"Page1", "Name"} |->
                  IF top = "Name" THEN JStr("x")
                  ELSE IF Len(vs) = 1 THEN page(1)
                  ELSE JList([r \in 1..Len(vs) |-> page(r)])])

InitRep ==
    /\ \E n \in Repeats, options \in FormOptionLists :
          /\ ds = RepDs(n)
          /\ tmpl = RadioTemplate(options, FALSE)
          /\ \E priors \in [1..n -> 0..Len(options)] : form = RepForm(options, priors)
          /\ \E vs \in [1..n -> FormValues] : values = RepInput(vs)
    /\ schema = NoResult
    /\ types = NoResult
    /\ fields = <<>>
    /\ xfa = <<>>
    /\ fill = "none"
    /\ dsOut = <<>>
    /\ formOut = <<>>
    /\ values2 = NoResult
    /\ tmplOut = <<>>
    /\ ServiceIdle
NextRep == FillFromValues \/ ExtractFilled
SpecRep == InitRep /\ [][NextRep]_vars

\* the instances of the group in a form tree, the value the data gives for
\* the r-th and the option that lines 1245-1270 select for it
GroupsOf(f) == InOrder({i \in 1..Len(f) : f[i].kind = "exclGroup"})
RepValue(r) ==
    LET page == values.v["Page1"]
    IN  IF IsList(page) THEN page.v[r].v["Gender"].v ELSE page.v["Gender"].v
RepSelected(r) ==
    SelectOption(ConvertValueForField(RepValue(r),
                                      [type |-> "radio", options |-> ChoiceOptions,
                                       format |-> <<>>]),
                 ChoiceOptions, TRUE)

\* C20: after a fill, in every instance of the group whose value selects an
\* option, the field of the selected option has a value/text that holds
\* "1", and every other option field has a value with override="1" and no
\* text, whether or not the path of the group carries repetition indices
\* and whatever the form tree held before.
C20_ExclusiveInForm ==
    fill = "done" =>
        \A r \in 1..Len(GroupsOf(formOut)) :
            RepSelected(r) # "" =>
                \A c \in Kids(formOut, GroupsOf(formOut)[r]) :
                    IF formOut[c].name = RepSelected(r)
                    THEN formOut[c].txt /\ formOut[c].val = "1"
                    ELSE ~formOut[c].txt /\ formOut[c].ov

(* ----------------------- unbound template fields ------------------------ *)
\* Documents whose template holds, beside the bound field Page1/Name, the
\* fields Page1/Phone and Note, each with no bind element (""), with bind
\* match="none" or bound (match="dataRef"), each with or without a value
\* from before, and the exclGroup Gender with two option fields.  The
\* dataset holds the bound leaves only.
BindKinds == {"", "none", "dataRef"}
GivenKinds == {"absent", "empty", "text"}
UnboundDs ==
    << DsBase, DNode(1, "Page1", ""), DNode(2, "Name", "x"), DNode(1, "Item", "y") >>
TField(d, name, bind, val) ==
    [TNode(d, "field", name, "textEdit") EXCEPT !.bind = bind, !.val = val, !.txt = val # ""]
UnboundTemplate(b1, v1, b2, v2) ==
    << TNode(0, "template", "", ""), TNode(1, "subform", BaseTag, ""),
       TNode(2, "subform", "Page1", ""),
       TField(3, "Name", "dataRef", ""), TField(3, "Phone", b1, v1),
       TField(2, "Note", b2, v2),
       TNode(2, "exclGroup", "Gender", ""),
       [TNode(3, "field", "Yes", "radioButton") EXCEPT !.bind = "none"],
       [TNode(3, "field", "No", "radioButton") EXCEPT !.bind = "none"] >>
GivenText(kind) == IF kind = "text" THEN JStr("555") ELSE JStr("")
UnboundInput(p, q) ==
    LET page == [k \in {"Name"} \cup (IF p = "absent" THEN {} ELSE {"Phone"}) |->
                    IF k = "Name" THEN JStr("x") ELSE GivenText(p)]
    IN  JDict([k \in {"Page1", "Item"} \cup (IF q = "absent" THEN {} ELSE {"Note"}) |->
                  IF k = "Page1" THEN JDict(page)
                  ELSE IF k = "Item" THEN JStr("y") ELSE GivenText(q)])

InitUnbound ==
    /\ ds = UnboundDs
    /\ form = NameForm
    /\ \E b1 \in BindKinds, b2 \in BindKinds, v1 \in {"", "old"}, v2 \in {"", "old"} :
          tmpl = UnboundTemplate(b1, v1, b2, v2)
    /\ \E p \in GivenKinds, q \in GivenKinds : values = UnboundInput(p, q)
    /\ schema = NoResult
    /\ types = NoResult
    /\ fields = <<>>
    /\ xfa = <<>>
    /\ fill = "none"
    /\ dsOut = <<>>
    /\ formOut = <<>>
    /\ values2 = NoResult
    /\ tmplOut = <<>>
    /\ ServiceIdle
NextUnbound == FillFromValues \/ ExtractFilled
SpecUnbound == InitUnbound /\ [][NextUnbound]_vars

\* the fields of the template that the pass is to fill: named, with no bind
\* or bind match="none", and no child of an exclGroup
UnboundFields(tm) ==
    {i \in 2..Len(tm) : /\ tm[i].kind = "field" /\ tm[i].name # ""
                        /\ tm[i].bind \in {"", "none"}
                        /\ tm[Parent(tm, i)].kind # "exclGroup"}
\* what the data holds at the dotted path of field i
GivenAt(tm, i) ==
    GetValueByFullJsonPath(JDict([top \in {BaseTag} |-> values]),
                           PathSegments(tm, 2, i) \o <<tm[i].name>>)

\* C21: after a fill, every unbound field of the template for which the
\* data holds a non-empty scalar has that value in its value/text, and every
\* unbound field for which the data holds nothing is as it was.
C21_UnboundFilled ==
    fill = "done" =>
        \A i \in UnboundFields(tmpl) :
            IF GivenAt(tmpl, i).k = "str" /\ GivenAt(tmpl, i).v # ""
            THEN tmplOut[i].txt /\ tmplOut[i].val = GivenAt(tmpl, i).v
            ELSE GivenAt(tmpl, i).k = "none" => tmplOut[i] = tmpl[i]

(* ------------------- leaves that resolve to no node -------------------- *)
\* In the documents of InitEdit the leaves Name and Page2.Name of the input
\* have no node at their path.  The choices that make the input of a state,
\* and the input without those two leaves.
EditChoice == CHOOSE a \in [1..4 -> EditChoices] : JDict(EditInput(a)) = values
HasUnknownLeaf == EditChoice[3] # "absent" \/ EditChoice[4] # "absent"
WithoutUnknown == EditInput([EditChoice EXCEPT ![3] = "absent", ![4] = "absent"])

\* C22: a fill whose input holds a leaf that resolves to no node does not
\* raise, and it leaves the dataset tree as the fill of the same input
\* without that leaf leaves it.
C22_FailuresSkipped ==
    (fill # "none" /\ HasUnknownLeaf /\ FillPdf(ds, form, tmpl, WithoutUnknown).ok) =>
        /\ fill = "done"
        /\ dsOut = FillPdf(ds, form, tmpl, WithoutUnknown).ds

(* ---------------- stream writes that fail during a fill ---------------- *)
\* The four writes of fill_pdf, in the order it makes them: the dataset
\* stream into out_pdf, the template stream after the unbound fields, the
\* template stream after the radio groups, the form stream.
Streams == {"datasets", "unbound", "template", "form"}

\* _fill_unbound_template_fields writes the template when the stream exists
\* and holds a named subform
WritesUnbound(tm) ==
    tm # <<>> /\ \E i \in 2..Len(tm) : tm[i].kind = "subform" /\ tm[i].name # ""

\* the two radio passes write their stream when it holds the base subform
\* and the base subform has children
WritesRadio(f, baseTag) ==
    /\ f # <<>>
    /\ \E i \in 1..Len(f) : f[i].kind = "subform" /\ f[i].name = baseTag
    /\ LET bases == {i \in 1..Len(f) : f[i].kind = "subform" /\ f[i].name = baseTag}
       IN  Kids(f, First(bases)) # {}

\* fill_pdf, r being the streams it computes, when the writes of bad raise: a failure of the dataset write and
\* of the write of _fill_unbound_template_fields leaves fill_pdf as an
\* exception; _fill_template_radio_groups and _fill_form_radio_groups catch
\* every exception, log a warning and return, and the stream stays as the
\* last successful write left it.  failed: the writes that raised.
FillPdfWriting(r, t, f, tm, below, bad) ==
    LET baseTag == GetBaseTagFromJson(t[1].tag, below)
        unbound == FillUnboundTemplateFields(tm, JDict([top \in {t[1].tag} |-> JDict(below)]))
        none == [ok |-> FALSE, ds |-> <<>>, form |-> <<>>, tm |-> <<>>]
        caught == {w \in bad : \/ w = "template" /\ WritesRadio(tm, baseTag)
                               \/ w = "form" /\ WritesRadio(f, baseTag)}
    IN  IF ~r.ok THEN [out |-> none, failed |-> {}]
        ELSE IF "datasets" \in bad THEN [out |-> none, failed |-> {"datasets"}]
        ELSE IF "unbound" \in bad /\ WritesUnbound(tm) THEN [out |-> none, failed |-> {"unbound"}]
        ELSE [out |-> [ok |-> TRUE, ds |-> r.ds,
                       form |-> IF "form" \in caught THEN f ELSE r.form,
                       tm |-> IF "template" \in caught THEN unbound ELSE r.tm],
              failed |-> caught]

\* POST /fill-pdf while some of the writes fail
FillWithFaults ==
    /\ values.k # "none"
    /\ fill = "none"
    /\ \E r \in {FillPdf(ds, form, tmpl, values.v)}, bad \in SUBSET Streams :
          \E w \in {FillPdfWriting(r, ds, form, tmpl, values.v, bad)} :
             /\ fill' = IF w.out.ok THEN "done" ELSE "failed"
             /\ dsOut' = w.out.ds
             /\ formOut' = w.out.form
             /\ tmplOut' = w.out.tm
             /\ faults' = w.failed
    /\ UNCHANGED <<docs, values2, pdf, status, portal, files>>

NextWrite == FillWithFaults \/ ExtractFilled
SpecWrite == InitChoice /\ [][NextWrite]_vars

\* C23: a fill during which the write of a stream failed delivers no PDF:
\* whenever a PDF is delivered, no write has failed.
C23_AllOrNothing == fill = "done" => faults = {}

(* ------------------ documents without the XFA structure ---------------- *)
\* What an uploaded file can be: a PDF with its XFA streams; a PDF without
\* /AcroForm or /XFA; a PDF whose XFA array holds no datasets packet; a PDF
\* whose datasets packet is no well-formed XML.
PdfKinds == {"xfa", "noXfa", "noDatasets", "badData"}
Absent == {"noXfa", "noDatasets"}

\* The response of an endpoint on a file of a kind.  read_datasets_from_pdf
\* raises RuntimeError on both absences and parse_xml raises on a packet
\* that is no XML; upload_and_extract and the two routers turn every
\* exception that is no HTTPException and no ValueError into status 500.
\* extract_field_types reads the template first, and get_xfa_parts raises
\* ValueError without /AcroForm or /XFA, which the router turns into 400.
Respond(e, kind) ==
    IF kind = "xfa" THEN [code |-> 200, kind |-> "json"]
    ELSE IF e = "types" /\ kind = "noXfa" THEN [code |-> 400, kind |-> "value"]
    ELSE [code |-> 500, kind |-> "internal"]

InitAbsent ==
    /\ pdf \in PdfKinds
    /\ IF pdf = "xfa" THEN ds \in DsFamily /\ form \in FormFamily
       ELSE ds = <<>> /\ form = <<>>
    /\ tmpl = <<>>
    /\ schema = NoResult
    /\ values = NoResult
    /\ types = NoResult
    /\ fields = <<>>
    /\ xfa = <<>>
    /\ fill = "none"
    /\ dsOut = <<>>
    /\ formOut = <<>>
    /\ values2 = NoResult
    /\ tmplOut = <<>>
    /\ faults = {}
    /\ status = [e \in Endpoints |-> NotCalled]
    /\ PortalIdle
    /\ FilesIdle

\* POST /upload-and-extract
PostUploadAndExtract ==
    /\ status["upload"] = NotCalled
    /\ status' = [status EXCEPT !["upload"] = Respond("upload", pdf)]
    /\ schema' = IF pdf = "xfa" THEN JDict(ExtractFields(ds, form)) ELSE schema
    /\ UNCHANGED <<ds, form, tmpl, values, types, fields, xfa, filled, faults, pdf, portal, files>>

\* POST /extract-field-values
PostExtractFieldValues ==
    /\ status["values"] = NotCalled
    /\ status' = [status EXCEPT !["values"] = Respond("values", pdf)]
    /\ values' = IF pdf = "xfa" THEN JDict(ExtractFieldValues(ds, form, tmpl)) ELSE values
    /\ UNCHANGED <<ds, form, tmpl, schema, types, fields, xfa, filled, faults, pdf, portal, files>>

\* POST /extract-field-types
PostExtractFieldTypes ==
    /\ status["types"] = NotCalled
    /\ status' = [status EXCEPT !["types"] = Respond("types", pdf)]
    /\ types' = IF pdf = "xfa" THEN JDict(ExtractFieldTypes(ds, form, tmpl)) ELSE types
    /\ UNCHANGED <<ds, form, tmpl, schema, values, fields, xfa, filled, faults, pdf, portal, files>>

NextAbsent == PostUploadAndExtract \/ PostExtractFieldValues \/ PostExtractFieldTypes
SpecAbsent == InitAbsent /\ [][NextAbsent]_vars

\* C24: on a file without XFA entry or without datasets stream every
\* extraction endpoint fails, and its response differs from the response
\* the same endpoint gives on another processing failure (a datasets
\* packet that is no XML).
C24_AbsenceDistinct ==
    \A e \in Endpoints :
        (pdf \in Absent /\ status[e] # NotCalled) =>
            /\ status[e].code # 200
            /\ status[e] # Respond(e, "badData")

(* ------------------------ the portal automation ------------------------ *)
\* max_concurrent = asyncio.Semaphore(2)
MaxConcurrent == 2
SemValue == MaxConcurrent - Cardinality(holding)
\* browser instances created and not yet closed
ActiveRuns == created \ closed

InitPortal ==
    /\ ds = <<>>
    /\ form = <<>>
    /\ tmpl = <<>>
    /\ schema = NoResult
    /\ values = NoResult
    /\ types = NoResult
    /\ fields = <<>>
    /\ xfa = <<>>
    /\ fill = "none"
    /\ dsOut = <<>>
    /\ formOut = <<>>
    /\ values2 = NoResult
    /\ tmplOut = <<>>
    /\ faults = {}
    /\ pdf = "xfa"
    /\ status = [e \in Endpoints |-> NotCalled]
    /\ route \in [Requests -> {"ws", "sse"}]
    /\ pc = [r \in Requests |-> "idle"]
    /\ holding = {}
    /\ created = {}
    /\ closed = {}
    /\ FilesIdle

\* How a stage of websocket_automation_handler ends.  "invalid": the first
\* message lacks username or password; "timeout": asyncio.TimeoutError, and
\* "timeout_unsent" when the send_json of its handler raises as well;
\* "disconnect": WebSocketDisconnect; "error": any other exception, and
\* "error_undumped" when save_debug_info of its handler raises as well.
Failures == {"timeout", "timeout_unsent", "disconnect", "error", "error_undumped"}
\* the ends on which the handler calls automation.close()
Closing == {"complete", "timeout", "disconnect", "error"}

\* websocket.accept(), then the handler waits for the semaphore
WsConnect(r) ==
    /\ route[r] = "ws" /\ pc[r] = "idle"
    /\ pc' = [pc EXCEPT ![r] = "waiting"]
    /\ UNCHANGED <<docs, filled, faults, pdf, status, files, route, holding, created, closed>>

\* async with max_concurrent: entered when the semaphore is positive
WsAcquire(r) ==
    /\ route[r] = "ws" /\ pc[r] = "waiting"
    /\ SemValue > 0
    /\ holding' = holding \cup {r}
    /\ pc' = [pc EXCEPT ![r] = "create"]
    /\ UNCHANGED <<docs, filled, faults, pdf, status, files, route, created, closed>>

\* the handler leaves the try statement and the async with block
WsEnd(r, how) ==
    /\ closed' = IF how \in Closing /\ r \in created THEN closed \cup {r} ELSE closed
    /\ holding' = holding \ {r}
    /\ pc' = [pc EXCEPT ![r] = "done"]

\* BrowserAutomation.create() returns, or raises with automation still None
WsCreate(r) ==
    /\ route[r] = "ws" /\ pc[r] = "create"
    /\ \/ /\ created' = created \cup {r}
          /\ pc' = [pc EXCEPT ![r] = "login"]
          /\ UNCHANGED <<holding, closed>>
       \/ /\ WsEnd(r, "error")
          /\ UNCHANGED created
    /\ UNCHANGED <<docs, filled, faults, pdf, status, files, route>>

\* the login page is loaded and the first message is awaited
WsLogin(r) ==
    /\ route[r] = "ws" /\ pc[r] = "login"
    /\ \/ /\ pc' = [pc EXCEPT ![r] = "run"]
          /\ UNCHANGED <<holding, closed>>
       \/ \E how \in Failures \cup {"invalid"} : WsEnd(r, how)
    /\ UNCHANGED <<docs, filled, faults, pdf, status, files, route, created>>

\* login, the form items and the save, up to the close of the browser
WsRun(r) ==
    /\ route[r] = "ws" /\ pc[r] = "run"
    /\ \E how \in Failures \cup {"complete"} : WsEnd(r, how)
    /\ UNCHANGED <<docs, filled, faults, pdf, status, files, route, created>>

\* update_pr_profile_stream: enters async with max_concurrent, returns the
\* StreamingResponse around the generator that has not started, and leaves
\* the block
SseRespond(r) ==
    /\ route[r] = "sse" /\ pc[r] = "idle"
    /\ SemValue > 0
    /\ pc' = [pc EXCEPT ![r] = "stream"]
    /\ UNCHANGED <<docs, filled, faults, pdf, status, files, route, holding, created, closed>>

\* run_pr_automation_with_progress starts when the response is sent:
\* BrowserAutomation.create() returns, or raises and the generator ends
SseCreate(r) ==
    /\ route[r] = "sse" /\ pc[r] = "stream"
    /\ \/ /\ created' = created \cup {r}
          /\ pc' = [pc EXCEPT ![r] = "run"]
       \/ /\ pc' = [pc EXCEPT ![r] = "done"]
          /\ UNCHANGED created
    /\ UNCHANGED <<docs, filled, faults, pdf, status, files, route, holding, closed>>

\* the generator ends, by completion or by an exception; its finally
\* clause closes the browser
SseRun(r) ==
    /\ route[r] = "sse" /\ pc[r] = "run"
    /\ closed' = closed \cup {r}
    /\ pc' = [pc EXCEPT ![r] = "done"]
    /\ UNCHANGED <<docs, filled, faults, pdf, status, files, route, holding, created>>

NextPortal ==
    \E r \in Requests :
        \/ WsConnect(r) \/ WsAcquire(r) \/ WsCreate(r) \/ WsLogin(r) \/ WsRun(r)
        \/ SseRespond(r) \/ SseCreate(r) \/ SseRun(r)
SpecPortal == InitPortal /\ [][NextPortal]_vars

\* C25: at most two automation runs are active at the same time.
C25_AtMostTwoRuns == Cardinality(ActiveRuns) <= MaxConcurrent

\* C27: when websocket_automation_handler has ended after a successful
\* BrowserAutomation.create(), automation.close() has been called and the
\* request holds no slot of the semaphore.
C27_BrowserReleased ==
    \A r \in Requests :
        (route[r] = "ws" /\ pc[r] = "done" /\ r \in created) =>
            r \in closed /\ r \notin holding

(* ----------------- one field under each repeated group ----------------- *)
\* Form trees that hold the path Page1/g/B once under each of n groups g,
\* with and without a text in each B and a field Name beside Page1.
GroupNames == {"A", "KeepPageSeparate"}
GroupCounts == {2, 3}
RECURSIVE GroupBody(_, _, _)
GroupBody(g, vals, k) ==
    IF k > Len(vals) THEN <<>>
    ELSE << FNode(2, "subform", g),
            [FNode(3, "field", "B") EXCEPT !.val = vals[k], !.txt = vals[k] # ""] >>
         \o GroupBody(g, vals, k + 1)
GroupedForm(g, vals, named) ==
    << FormBase, FNode(1, "subform", "Page1") >> \o GroupBody(g, vals, 1)
    \o (IF named THEN << FNode(1, "field", "Name") >> ELSE <<>>)

InitGrouped ==
    /\ ds \in {<<DsBase>>, KeepDs}
    /\ \E g \in GroupNames, n \in GroupCounts, named \in BOOLEAN :
          \E vals \in [1..n -> {"", "1"}] : form = GroupedForm(g, vals, named)
    /\ tmpl = <<>>
    /\ schema = NoResult
    /\ values = NoResult
    /\ types = NoResult
    /\ fields = <<>>
    /\ xfa = <<>>
    /\ fill = "none"
    /\ dsOut = <<>>
    /\ formOut = <<>>
    /\ values2 = NoResult
    /\ tmplOut = <<>>
    /\ ServiceIdle
NextGrouped == UploadAndExtract \/ GetFieldValues
SpecGrouped == InitGrouped /\ [][NextGrouped]_vars

\* the key with the index on the group, for the k-th B
OnGroup(p, idx) == << <<p[1], -1>>, <<p[2], idx>>, <<p[3], -1>> >>

\* C26: for the path Page1/g/B that occurs once under each of n > 1 groups
\* g, the keys of _build_field_template and of
\* _collect_form_field_values_from_pdf carry the index on the group g:
\* Page1.g[0].B ... Page1.g[n-1].B.
C26_IndexOnGroup ==
    /\ schema.k # "none" =>
          \A n \in 1..Len(Collected) :
              Len(Collected[n]) = 3 =>
                  Assigned[n].jp = OnGroup(Collected[n], OccIdx(Collected, n))
    /\ values.k # "none" =>
          \A k \in 1..Len(FormTuples(form)) :
              Len(FormTuples(form)[k]) = 3 =>
                  FormKeyPath(FormTuples(form), k)
                      = OnGroup(FormTuples(form)[k], OccIdx(FormTuples(form), k))

(* ---------------- arrays longer than the sibling nodes ----------------- *)
\* Datasets with one or two Item nodes below Page1 and a Name node; the
\* input gives Page1.Item as an array of one to three different strings.
ItemCounts == {1, 2}
ElementPool == {"a", "b", "c"}
ElementLists ==
    {q \in UNION {[1..n -> ElementPool] : n \in 1..3} :
        \A i, j \in 1..Len(q) : i # j => q[i] # q[j]}
ListDs(m, prior) ==
    << DsBase, DNode(1, "Page1", "") >>
    \o [i \in 1..m |-> DNode(2, "Item", prior)]
    \o << DNode(1, "Name", "x") >>
ListInput(q, named) ==
    LET page == JDict([k \in {"Item"} |-> JList([i \in 1..Len(q) |-> JStr(q[i])])])
    IN  [k \in {"Page1"} \cup (IF named THEN {"Name"} ELSE {}) |->
            IF k = "Page1" THEN page ELSE JStr("v")]

InitList ==
    /\ \E m \in ItemCounts, prior \in {"", "y"} : ds = ListDs(m, prior)
    /\ form = NameForm
    /\ tmpl = <<>>
    /\ \E q \in ElementLists, named \in BOOLEAN : values = JDict(ListInput(q, named))
    /\ schema = NoResult
    /\ types = NoResult
    /\ fields = <<>>
    /\ xfa = <<>>
    /\ fill = "none"
    /\ dsOut = <<>>
    /\ formOut = <<>>
    /\ values2 = NoResult
    /\ tmplOut = <<>>
    /\ ServiceIdle
NextList == FillFromValues \/ ExtractFilled
SpecList == InitList /\ [][NextList]_vars

\* the Item nodes below Page1, in document order, and the array given
ItemNodes(t) == InOrder({i \in 1..Len(t) : t[i].tag = "Item" /\ t[i].d = 2})
GivenItems == values.v["Page1"].v["Item"].v

\* C28: after a fill with an array for Page1.Item, every Item node holds the
\* element at its own index; the elements beyond the last node are skipped.
C28_SurplusSkipped ==
    fill = "done" =>
        /\ Len(ItemNodes(dsOut)) = Len(ItemNodes(ds))
        /\ \A i \in 1..Len(ItemNodes(dsOut)) :
              i <= Len(GivenItems) => dsOut[ItemNodes(dsOut)[i]].text = GivenItems[i].v

(* ------------------- the files a fill reads and writes ----------------- *)
\* _create_temp_output_file: a new file in the system's temporary
\* directory, never a file of uploads/.  CreateTempOutputFileInPlace would
\* hand the uploaded file itself out as the output.
CreateTempOutputFileInPlace == "uploads"
CreateTempOutputFile == "output"

\* write_datasets_to_pdf(pdf_in, xml, pdf_out): pdf_in with its dataset
\* stream replaced, saved as pdf_out
WriteDatasetsToPdf(fs, pdfIn, xml, pdfOut) ==
    [fs EXCEPT ![pdfOut] = PdfFile(xml, fs[pdfIn].form, fs[pdfIn].tm)]
\* write_template_to_pdf and _write_form_to_pdf overwrite the file they open
WriteTemplateToPdf(fs, path, xml) == [fs EXCEPT ![path].tm = xml]
WriteFormToPdf(fs, path, xml) == [fs EXCEPT ![path].form = xml]

\* fill_pdf(src, data, out) inside fill_pdf_with_data, w being what its
\* writes come to: the files afterwards.  When fill_pdf raises, the output
\* file is unlinked.
FillPdfFiles(fs, src, w, out) ==
    IF w.out.ok
    THEN WriteFormToPdf(
             WriteTemplateToPdf(
                 WriteDatasetsToPdf(fs, src, w.out.ds, out), out, w.out.tm),
             out, w.out.form)
    ELSE [fs EXCEPT ![out] = Missing]

\* Documents with a radio group of two options, uploaded as uploads/<filename>
StoreOptions == {q \in OptionLists : Len(q) = 2}
StoreValues == {"", "1", "2", "zz"}
\* the body of a request: a schema of the document with v at every leaf of Page1
StoreInput(got, v) ==
    JDict([key \in DOMAIN got |-> IF key = "Page1" THEN WithLeaves(got[key], v) ELSE got[key]])
InitStore ==
    /\ \E options \in StoreOptions, inner \in BOOLEAN :
          /\ ds = RadioDs("1", inner, TRUE)
          /\ tmpl = RadioTemplate(options, inner)
          /\ form \in {NameForm, GroupForm(options, inner)}
    /\ \E got \in {ExtractFieldValues(ds, form, tmpl)}, v \in StoreValues :
          values = StoreInput(got, v)
    /\ schema = NoResult
    /\ types = NoResult
    /\ fields = <<>>
    /\ xfa = <<>>
    /\ fill = "none"
    /\ dsOut = <<>>
    /\ formOut = <<>>
    /\ values2 = NoResult
    /\ tmplOut = <<>>
    /\ faults = {}
    /\ pdf = "xfa"
    /\ status = [e \in Endpoints |-> NotCalled]
    /\ PortalIdle
    /\ store = [p \in Paths |-> IF p = "uploads" THEN PdfFile(ds, form, tmpl) ELSE Missing]
    /\ last = NoCall

\* POST /fill-pdf on the stored file: 404 when uploads/<filename> is
\* missing, else fill_pdf from it into the temporary output
FillStored ==
    /\ values.k # "none"
    /\ fill = "none"
    /\ IF store["uploads"].k # "pdf"
       THEN /\ fill' = "failed"
            /\ UNCHANGED <<dsOut, formOut, tmplOut, faults, store>>
       ELSE \E src \in {store["uploads"]} :
               \E r \in {FillPdf(src.ds, src.form, src.tm, values.v)}, bad \in SUBSET Streams :
                  \E w \in {FillPdfWriting(r, src.ds, src.form, src.tm, values.v, bad)} :
                     \E after \in {FillPdfFiles(store, "uploads", w, CreateTempOutputFile)} :
                        /\ fill' = IF w.out.ok THEN "done" ELSE "failed"
                        /\ store' = after
                        /\ dsOut' = IF w.out.ok THEN after[CreateTempOutputFile].ds ELSE <<>>
                        /\ formOut' = IF w.out.ok THEN after[CreateTempOutputFile].form ELSE <<>>
                        /\ tmplOut' = IF w.out.ok THEN after[CreateTempOutputFile].tm ELSE <<>>
                        /\ faults' = w.failed
    /\ UNCHANGED <<docs, values2, pdf, status, portal, last>>

\* _cleanup_temp_file after the download, and the body of the next request
CleanupTempFile ==
    /\ fill # "none"
    /\ store' = [store EXCEPT ![CreateTempOutputFile] = Missing]
    /\ fill' = "none"
    /\ dsOut' = <<>>
    /\ formOut' = <<>>
    /\ tmplOut' = <<>>
    /\ values2' = NoResult
    /\ faults' = {}
    /\ \E v \in StoreValues : values' = StoreInput(values.v, v)
    /\ UNCHANGED <<ds, form, tmpl, schema, types, fields, xfa, pdf, status, portal, last>>

NextStore == FillStored \/ CleanupTempFile
SpecStore == InitStore /\ [][NextStore]_vars

\* C29: whatever fills were made, the uploaded file holds the streams it
\* was uploaded with, and a fill without a failed write delivers the fill
\* of those streams.
C29_SourceUnchanged ==
    /\ store["uploads"] = PdfFile(ds, form, tmpl)
    /\ (fill = "done" /\ faults = {}) =>
          \E r \in {FillPdf(ds, form, tmpl, values.v)} :
              store["output"] = PdfFile(r.ds, r.form, r.tm)
\* a fill has written an output whose streams differ from the uploaded ones
C29_Witness ==
    /\ fill = "done"
    /\ store["output"].k = "pdf"
    /\ store["output"].ds # store["uploads"].ds
    /\ store["output"].form # store["uploads"].form
    /\ store["output"].tm # store["uploads"].tm

(* --------------------------- the upload store --------------------------- *)
\* Bodies of an upload: XFA documents, a PDF without an XFA entry, no bytes
NonXfaFile == [k |-> "noXfa", ds |-> <<>>, form |-> <<>>, tm |-> <<>>]
EmptyFile == [k |-> "empty", ds |-> <<>>, form |-> <<>>, tm |-> <<>>]
XfaFiles == {PdfFile(t, NameForm, <<>>) : t \in {<<DsBase>>, ExampleDs, KeepDs, EditDs}}
UploadContents == XfaFiles \cup {NonXfaFile, EmptyFile}
Filenames == {"", "form.txt", "form.pdf"}
IoFaults == {"none", "write", "read"}

\* _validate_pdf_file: a filename ending in .pdf and a body with bytes
ValidatePdfFile(filename, c) == filename = "form.pdf" /\ c.k # "empty"

\* _calculate_checksum: a digest of all the bytes of a body
CalculateChecksum(c) == <<c.k, c.ds, c.form, c.tm>>

\* _is_file_identical: the file exists and has the checksum of the upload.
\* IsFileIdenticalNever would treat every upload as new.
IsFileIdenticalNever(fs, path, c) == FALSE
IsFileIdentical(fs, path, c) ==
    /\ fs[path].k # "missing"
    /\ CalculateChecksum(fs[path]) = CalculateChecksum(c)

\* POST /upload-and-extract with a body c under a filename, while the
\* device may fail a write or a read: validation, the comparison with the
\* stored file, the write of a new body, the extraction, and the unlink of a
\* newly written file when anything but an HTTPException was raised
UploadStored(filename, c, fault) ==
    IF ~ValidatePdfFile(filename, c)
    THEN /\ last' = [k |-> "call", contents |-> c, prior |-> store["uploads"],
                     code |-> 400, wrote |-> FALSE]
         /\ UNCHANGED <<store, schema>>
    ELSE LET shouldUseExisting == IsFileIdentical(store, "uploads", c)
             written == IF shouldUseExisting THEN store
                        ELSE IF fault = "write"
                             THEN [store EXCEPT !["uploads"] = Partial]
                             ELSE [store EXCEPT !["uploads"] = c]
             raised == \/ ~shouldUseExisting /\ fault = "write"
                       \/ fault = "read"
                       \/ c.k # "pdf"
         IN  /\ store' = IF raised /\ ~shouldUseExisting /\ written["uploads"].k # "missing"
                         THEN [written EXCEPT !["uploads"] = Missing]
                         ELSE written
             /\ schema' = IF raised THEN schema ELSE JDict(ExtractFields(c.ds, c.form))
             /\ last' = [k |-> "call", contents |-> c, prior |-> store["uploads"],
                         code |-> IF raised THEN 500 ELSE 200,
                         wrote |-> ~shouldUseExisting]

UploadRequest ==
    /\ \E filename \in Filenames, c \in UploadContents, fault \in IoFaults :
          UploadStored(filename, c, fault)
    /\ UNCHANGED <<ds, form, tmpl, values, types, fields, xfa, filled,
                   faults, pdf, status, portal>>

\* The uploads directory outlives the process: it starts empty or with a
\* file put there before
InitUpload ==
    /\ ds = <<DsBase>>
    /\ form = NameForm
    /\ tmpl = <<>>
    /\ schema = NoResult
    /\ values = NoResult
    /\ types = NoResult
    /\ fields = <<>>
    /\ xfa = <<>>
    /\ fill = "none"
    /\ dsOut = <<>>
    /\ formOut = <<>>
    /\ values2 = NoResult
    /\ tmplOut = <<>>
    /\ faults = {}
    /\ pdf = "xfa"
    /\ status = [e \in Endpoints |-> NotCalled]
    /\ PortalIdle
    /\ \E c \in (XfaFiles \cup {NonXfaFile, Missing}) :
          store = [p \in Paths |-> IF p = "uploads" THEN c ELSE Missing]
    /\ last = NoCall

NextUpload == UploadRequest
SpecUpload == InitUpload /\ [][NextUpload]_vars

====
